---------------------------- MODULE Spec2Model ----------------------------
(***************************************************************************)
(* A model of the scoring core of the NBA fantasy analyzer: injury         *)
(* severity, live-matchup need vectors, the basic and the enhanced trade   *)
(* engine, and the streaming recommender.                                  *)
(*                                                                         *)
(* Numbers.  The program computes in binary floating point.  The model     *)
(* computes in decimal fixed point: a real x is the integer x * ONE, and   *)
(* a product or quotient is truncated toward zero (SDiv), which is         *)
(* sign-symmetric like floating-point rounding.  A normalised vector is    *)
(* kept exact, as numerators over one common denominator, so "sums to 1"   *)
(* is a statement the model can refute.  Text is a sequence of one-        *)
(* character strings, so substring search, case folding and the duration   *)
(* pattern are computed as the program computes them.                      *)
(***************************************************************************)
EXTENDS Integers, Sequences, FiniteSets, TLC

----------------------------------------------------------------------------
(* Fixed-point arithmetic *)

ONE == 10 * 100

Abs(x) == IF x < 0 THEN -x ELSE x

Max(a, b) == IF a >= b THEN a ELSE b

Min(a, b) == IF a <= b THEN a ELSE b

\* a / b truncated toward zero, b # 0
SDiv(a, b) ==
    LET q == Abs(a) \div Abs(b)
    IN  IF (a < 0) = (b < 0) THEN q ELSE -q

FMul(a, b) == SDiv(a * b, ONE)

FDiv(a, b) == SDiv(a * ONE, b)

RECURSIVE IsqrtIter(_, _, _)
IsqrtIter(n, lo, hi) ==
    IF lo >= hi THEN lo
    ELSE LET mid == (lo + hi + 1) \div 2
         IN  IF mid * mid <= n THEN IsqrtIter(n, mid, hi)
             ELSE IsqrtIter(n, lo, mid - 1)

\* floor of the square root of n >= 0
Isqrt(n) == IsqrtIter(n, 0, Min(n, 46340))

RECURSIVE SumSeq(_)
SumSeq(s) == IF s = << >> THEN 0 ELSE Head(s) + SumSeq(Tail(s))

Range(s) == {s[i] : i \in DOMAIN s}

\* dict.get(key, default)
Get(d, k, default) == IF k \in DOMAIN d THEN d[k] ELSE default

\* the empty dict
EmptyDict == [k \in {} |-> 0]

\* Python's None, where a profile is optional
None == [none |-> TRUE]

----------------------------------------------------------------------------
(* config.py *)

CATEGORIES == <<"PTS", "REB", "AST", "STL", "BLK", "FG%", "FT%", "3PM", "TOV">>

NEGATIVE_CATEGORIES == {"TOV"}

TRADE_CATEGORIES == SelectSeq(CATEGORIES, LAMBDA c : c # "TOV")

CatSet == Range(CATEGORIES)

TradeCatSet == Range(TRADE_CATEGORIES)

PLAYER_Z_PREFIX == "__Z__"

INJURY_KEY == "__INJ_SEV__"

\* the z-score stored under the raw category key
ZKeyWithoutPrefix(cat) == cat

\* f"{PLAYER_Z_PREFIX}{cat}"
ZKey(cat) == PLAYER_Z_PREFIX \o cat

----------------------------------------------------------------------------
(* Text: a string is a sequence of one-character strings *)

LowerLetters ==
    <<"a", "b", "c", "d", "e", "f", "g", "h", "i", "j", "k", "l", "m",
      "n", "o", "p", "q", "r", "s", "t", "u", "v", "w", "x", "y", "z">>

UpperLetters ==
    <<"A", "B", "C", "D", "E", "F", "G", "H", "I", "J", "K", "L", "M",
      "N", "O", "P", "Q", "R", "S", "T", "U", "V", "W", "X", "Y", "Z">>

Digits == <<"0", "1", "2", "3", "4", "5", "6", "7", "8", "9">>

UpperChar(c) ==
    IF \E i \in DOMAIN LowerLetters : LowerLetters[i] = c
    THEN UpperLetters[CHOOSE i \in DOMAIN LowerLetters : LowerLetters[i] = c]
    ELSE c

LowerChar(c) ==
    IF \E i \in DOMAIN UpperLetters : UpperLetters[i] = c
    THEN LowerLetters[CHOOSE i \in DOMAIN UpperLetters : UpperLetters[i] = c]
    ELSE c

\* str.upper() and str.lower()
Upper(s) == [i \in DOMAIN s |-> UpperChar(s[i])]

Lower(s) == [i \in DOMAIN s |-> LowerChar(s[i])]

IsDigit(c) == \E i \in DOMAIN Digits : Digits[i] = c

DigitVal(c) == (CHOOSE i \in DOMAIN Digits : Digits[i] = c) - 1

IsSpace(c) == c \in {" ", "\t", "\n"}

\* tag occurs in s at position i (1-based)
OccursAt(s, tag, i) ==
    /\ i >= 1
    /\ i + Len(tag) - 1 <= Len(s)
    /\ \A k \in 1..Len(tag) : s[i + k - 1] = tag[k]

\* Python's  tag in s
Contains(s, tag) == \E i \in 1..(Len(s) + 1) : OccursAt(s, tag, i)

\* int(text) for a run of digits s[i..j]
RECURSIVE IntOf(_, _, _)
IntOf(s, i, j) ==
    IF j < i THEN 0 ELSE 10 * IntOf(s, i, j - 1) + DigitVal(s[j])

\* the length of the longest run of characters from position i on that are
\* digits (kind = "d") or whitespace (kind = "s")
RECURSIVE RunLen(_, _, _)
RunLen(s, i, kind) ==
    IF i > Len(s) THEN 0
    ELSE IF (kind = "d" /\ IsDigit(s[i])) \/ (kind = "s" /\ IsSpace(s[i]))
         THEN 1 + RunLen(s, i + 1, kind)
         ELSE 0

----------------------------------------------------------------------------
(* analysis/injury.py *)

\* the alternatives of the duration pattern, in the pattern's order
DurationUnits ==
    << <<"d", "a", "y">>, <<"d", "a", "y", "s">>, <<"w", "k">>,
       <<"w", "k", "s">>, <<"w", "e", "e", "k">>, <<"w", "e", "e", "k", "s">> >>

\* re.search(r"(\d+)\s*(day|days|wk|wks|week|weeks)", detail), tried at start
\* position i: greedy digits, then greedy whitespace, each backtracking, then
\* the first alternative that matches.  The set of <<digits, spaces>> splits
\* for which some unit follows.
DurationSplitsAt(s, i) ==
    {ds \in (1..RunLen(s, i, "d")) \X (0..Len(s)) :
        /\ ds[2] <= RunLen(s, i + ds[1], "s")
        /\ \E u \in DOMAIN DurationUnits :
              OccursAt(s, DurationUnits[u], i + ds[1] + ds[2])}

DurationMatchesAt(s, i) == DurationSplitsAt(s, i) # {}

\* the split the greedy quantifiers settle on: most digits, then most spaces
GreedySplit(sp) ==
    CHOOSE ds \in sp :
        \A e \in sp : e[1] < ds[1] \/ (e[1] = ds[1] /\ e[2] <= ds[2])

\* the first alternative of the pattern that occurs at position p
FirstUnitAt(s, p) ==
    CHOOSE k \in DOMAIN DurationUnits :
        /\ OccursAt(s, DurationUnits[k], p)
        /\ \A j \in 1..(k - 1) : ~OccursAt(s, DurationUnits[j], p)

\* m.group(1) as an integer and m.group(2), for the match at i with split ds
DurationMatchAt(s, i, ds) ==
    <<IntOf(s, i, i + ds[1] - 1), DurationUnits[FirstUnitAt(s, i + ds[1] + ds[2])]>>

\* the leftmost match from position i on: <<number, unit>>, or << >>
RECURSIVE DurationSearchFrom(_, _)
DurationSearchFrom(s, i) ==
    IF i > Len(s) THEN << >>
    ELSE IF DurationMatchesAt(s, i)
         THEN DurationMatchAt(s, i, GreedySplit(DurationSplitsAt(s, i)))
         ELSE DurationSearchFrom(s, i + 1)

\* the match re.search returns: <<number, unit>>, or << >> for no match
DurationSearch(s) == DurationSearchFrom(s, 1)

StatusTagsOut == {<<"O", "U", "T">>, <<"I", "N", "J">>, <<"I", "L">>, <<"I", "R">>}

StatusTagsDoubtful == {<<"D", "O", "U", "B", "T", "F", "U", "L">>}

StatusTagsQuestionable ==
    {<<"Q", "U", "E", "S", "T", "I", "O", "N", "A", "B", "L", "E">>,
     <<"Q", "S", "T">>, <<"Q">>}

StatusTagsDayToDay ==
    {<<"D", "A", "Y", "-", "T", "O", "-", "D", "A", "Y">>, <<"D", "T", "D">>,
     <<"G", "T", "D">>, <<"P", "R", "O", "B", "A", "B", "L", "E">>}

\* the base severity from the status label
InjuryBase(status_raw) ==
    LET status == Upper(status_raw)
    IN  IF \E tag \in StatusTagsOut : Contains(status, tag) THEN ONE
        ELSE IF \E tag \in StatusTagsDoubtful : Contains(status, tag) THEN 800
        ELSE IF \E tag \in StatusTagsQuestionable : Contains(status, tag) THEN 600
        ELSE IF \E tag \in StatusTagsDayToDay : Contains(status, tag) THEN 300
        ELSE 0

DurationCountingWeeksAsDays(m) ==
    IF m = << >> THEN 0 ELSE Min(ONE, SDiv(m[1] * ONE, 10))

\* the severity from an explicit duration in the description
DurationOfMatch(m) ==
    IF m = << >> THEN 0
    ELSE LET num == m[1]
             unit == m[2]
             approx_games_missed ==
                 IF Contains(unit, <<"d", "a", "y">>) THEN num ELSE num * 3
         IN  Min(ONE, SDiv(approx_games_missed * ONE, 10))

InjuryDuration(detail_raw) == DurationOfMatch(DurationSearch(Lower(detail_raw)))

estimate_injury_severity(status_raw, detail_raw) ==
    IF status_raw = << >> /\ detail_raw = << >> THEN 0
    ELSE Min(ONE, Max(InjuryBase(status_raw), InjuryDuration(detail_raw)))

\* injury_severity(player): the precomputed severity in the stats dict
injury_severity(player) == Get(player.stats, INJURY_KEY, 0)

\* durability = 1.0 - 0.7 * max(0.0, min(1.0, sev))
DurabilityNoClamp(sev) == ONE - SDiv(7 * sev, 10)

Durability(sev) == ONE - SDiv(7 * Max(0, Min(ONE, sev)), 10)

----------------------------------------------------------------------------
(* analysis/position.py *)

UTIL == <<"U", "T", "I", "L">>

\* str.replace(" ", "").replace("-", "/")
RECURSIVE PosNormalize(_)
PosNormalize(s) ==
    IF s = << >> THEN << >>
    ELSE IF Head(s) = " " THEN PosNormalize(Tail(s))
    ELSE IF Head(s) = "-" THEN <<"/">> \o PosNormalize(Tail(s))
    ELSE <<Head(s)>> \o PosNormalize(Tail(s))

\* s.split(sep)[0]
RECURSIVE FirstToken(_, _)
FirstToken(s, sep) ==
    IF s = << >> \/ Head(s) = sep THEN << >>
    ELSE <<Head(s)>> \o FirstToken(Tail(s), sep)

primary_position(pos_str) ==
    IF pos_str = << >> THEN UTIL
    ELSE LET s == PosNormalize(pos_str)
             part0 == IF Contains(s, <<"/">>) THEN FirstToken(s, "/")
                      ELSE FirstToken(s, ",")
         IN  IF part0 # << >> THEN Upper(part0) ELSE UTIL

\* the dict position -> count, as a function on the positions present
position_counts(players) ==
    LET keys == {primary_position(players[i].fantasy_position) : i \in DOMAIN players}
    IN  [k \in keys |->
            Cardinality({i \in DOMAIN players :
                            primary_position(players[i].fantasy_position) = k})]

\* the number of players of a package whose primary position is k
PosCountIn(pack, k) ==
    Cardinality({i \in DOMAIN pack : primary_position(pack[i].fantasy_position) = k})

\* after = dict(before), -1 per outgoing player, +1 per incoming player
PositionAfter(before, players_out, players_in) ==
    LET keys == DOMAIN before
                  \cup {primary_position(players_out[i].fantasy_position) :
                            i \in DOMAIN players_out}
                  \cup {primary_position(players_in[i].fantasy_position) :
                            i \in DOMAIN players_in}
    IN  [k \in keys |-> Get(before, k, 0) - PosCountIn(players_out, k)
                          + PosCountIn(players_in, k)]

\* dist(counts) times the number of positions: the sum over the keys of
\* before and of counts of |count * num_positions - roster_size|
PositionDistTimes(before, counts, roster_size, num_positions) ==
    LET keys == DOMAIN before \cup DOMAIN counts
        Term(k) == Abs(Get(counts, k, 0) * num_positions - roster_size)
        RECURSIVE SumOver(_)
        SumOver(S) == IF S = {} THEN 0
                      ELSE LET k == CHOOSE x \in S : TRUE
                           IN  Term(k) + SumOver(S \ {k})
    IN  SumOver(keys)

\* dist_before alone, not compared with dist_after
PositionDeltaBeforeOnly(before, after, roster_size, num_positions) ==
    SDiv(PositionDistTimes(before, before, roster_size, num_positions) * ONE,
         num_positions)

\* (dist_before - dist_after) / num_positions, in fixed point
PositionDeltaOf(before, after, roster_size, num_positions) ==
    SDiv((PositionDistTimes(before, before, roster_size, num_positions)
            - PositionDistTimes(before, after, roster_size, num_positions)) * ONE,
         num_positions)

\* position_balance_delta given before = position_counts(team.players)
PositionDeltaFrom(before, roster_size, players_out, players_in) ==
    IF DOMAIN before = {} THEN 0
    ELSE PositionDeltaOf(before, PositionAfter(before, players_out, players_in),
                         roster_size, Max(1, Cardinality(DOMAIN before)))

position_balance_delta(team, players_out, players_in) ==
    PositionDeltaFrom(position_counts(team.players), Len(team.players),
                      players_out, players_in)

----------------------------------------------------------------------------
(* analysis/trade.py: local z-scores, effect vectors, market value *)

\* the values of one raw category over a pool
PoolVals(players, cat) == [i \in DOMAIN players |-> Get(players[i].stats, cat, 0)]

RECURSIVE SumSquares(_)
SumSquares(s) == IF s = << >> THEN 0 ELSE Head(s) * Head(s) + SumSquares(Tail(s))

\* the same with the sample deviation, which divides by n - 1
PopulationZSampleStd(vals, i) ==
    LET n == Len(vals)
        s == SumSeq(vals)
        V == n * SumSquares(vals) - s * s
        dev == n * vals[i] - s
        mag == Isqrt((((dev * dev * ONE * ONE) \div V) * (n - 1)) \div n)
    IN  IF V = 0 THEN 0
        ELSE IF dev < 0 THEN -mag ELSE mag

\* (raw - mean) / (pstdev or 1.0) for vals[i]: with n values, sum s and
\* n^2 * variance V = n * sum of squares - s^2, it is (n*raw - s) / sqrt(V),
\* and 0 when V = 0 (every value equals the mean)
PopulationZ(vals, i) ==
    LET n == Len(vals)
        s == SumSeq(vals)
        V == n * SumSquares(vals) - s * s
        dev == n * vals[i] - s
        mag == Isqrt((dev * dev * ONE * ONE) \div V)
    IN  IF V = 0 THEN 0
        ELSE IF dev < 0 THEN -mag ELSE mag

\* the same, but a z-score already on a stat line is kept
ComputeLocalZKeepingStale(players) ==
    [i \in DOMAIN players |->
        [players[i] EXCEPT !.stats =
            [k \in DOMAIN players[i].stats
                     \cup {ZKey(TRADE_CATEGORIES[c]) : c \in DOMAIN TRADE_CATEGORIES} |->
                IF k \in DOMAIN players[i].stats THEN players[i].stats[k]
                ELSE LET c == CHOOSE x \in DOMAIN TRADE_CATEGORIES :
                                  k = ZKey(TRADE_CATEGORIES[x])
                     IN  PopulationZ(PoolVals(players, TRADE_CATEGORIES[c]), i)]
                @@ EmptyDict]]

\* _compute_local_player_z: the pool with stats[__Z__cat] written
compute_local_player_z(players) ==
    [i \in DOMAIN players |->
        [players[i] EXCEPT !.stats =
            [k \in DOMAIN players[i].stats
                     \cup {ZKey(TRADE_CATEGORIES[c]) : c \in DOMAIN TRADE_CATEGORIES} |->
                IF \E c \in DOMAIN TRADE_CATEGORIES : k = ZKey(TRADE_CATEGORIES[c])
                THEN LET c == CHOOSE x \in DOMAIN TRADE_CATEGORIES :
                                  k = ZKey(TRADE_CATEGORIES[x])
                     IN  PopulationZ(PoolVals(players, TRADE_CATEGORIES[c]), i)
                ELSE players[i].stats[k]] @@ EmptyDict]]

\* _player_effect_vector
player_effect_vector(player) ==
    LET durability == Durability(injury_severity(player))
    IN  [cat \in TradeCatSet |-> FMul(Get(player.stats, ZKey(cat), 0), durability)]
            @@ EmptyDict

\* _package_effect_vector
package_effect_vector(players) ==
    [cat \in TradeCatSet |->
        SumSeq([i \in DOMAIN players |-> player_effect_vector(players[i])[cat]])]
        @@ EmptyDict

\* _market_value
market_value(player, category_weights) ==
    LET durability == Durability(injury_severity(player))
        total == SumSeq([c \in DOMAIN TRADE_CATEGORIES |->
                            FMul(Get(category_weights, TRADE_CATEGORIES[c], ONE),
                                 Get(player.stats, ZKey(TRADE_CATEGORIES[c]), 0))])
    IN  FMul(total, durability)

PackageValue(pack, category_weights) ==
    SumSeq([i \in DOMAIN pack |-> market_value(pack[i], category_weights)])

\* 1e-6 = 1 / EpsDen
EpsDen == 1000 * 1000

FairnessNoClamp(val_a, val_b, unit) ==
    IF Abs(val_a) + Abs(val_b) <= (2 * unit) \div EpsDen THEN [num |-> 1, den |-> 1]
    ELSE [num |-> Abs(val_a) + Abs(val_b) - 2 * Abs(val_a - val_b),
          den |-> Abs(val_a) + Abs(val_b)]

\* the fairness of two summed market values given in steps of 1 / unit, as
\* the exact fraction num / den:  avg = (|val_a| + |val_b|) / 2; 1.0 if
\* avg <= 1e-6, else max(0, 1 - |val_a - val_b| / avg)
FairnessOfValues(val_a, val_b, unit) ==
    IF Abs(val_a) + Abs(val_b) <= (2 * unit) \div EpsDen THEN [num |-> 1, den |-> 1]
    ELSE [num |-> Max(0, Abs(val_a) + Abs(val_b) - 2 * Abs(val_a - val_b)),
          den |-> Abs(val_a) + Abs(val_b)]

\* _fairness_score_for_packages
fairness_score_for_packages(pack_a, pack_b, category_weights) ==
    FairnessOfValues(PackageValue(pack_a, category_weights),
                     PackageValue(pack_b, category_weights), ONE)

----------------------------------------------------------------------------
(* core/team_analysis.py *)

TURNOVER_WEIGHT == 250

\* sorted(cats, key = z[c]): stable, ascending; cats in dict (category) order
RECURSIVE SortByZAsc(_, _)
SortByZAsc(cats, z) ==
    IF cats = << >> THEN << >>
    ELSE LET rest == SortByZAsc(SubSeq(cats, 1, Len(cats) - 1), z)
             c == cats[Len(cats)]
             before == SelectSeq(rest, LAMBDA x : z[x] <= z[c])
             after == SelectSeq(rest, LAMBDA x : z[x] > z[c])
         IN  before \o <<c>> \o after

\* sorted(cats, key = z[c], reverse = True): stable, descending
RECURSIVE SortByZDesc(_, _)
SortByZDesc(cats, z) ==
    IF cats = << >> THEN << >>
    ELSE LET rest == SortByZDesc(SubSeq(cats, 1, Len(cats) - 1), z)
             c == cats[Len(cats)]
             before == SelectSeq(rest, LAMBDA x : z[x] >= z[c])
             after == SelectSeq(rest, LAMBDA x : z[x] < z[c])
         IN  before \o <<c>> \o after

\* s[:n]
Take(s, n) == SubSeq(s, 1, Min(n, Len(s)))

\* every category, the zero-weighted ones included
ScoredCategoriesIgnoringWeights(category_weights) == CATEGORIES

\* the categories the scoring loop does not skip: base_weight <= 0.0 skips
ScoredCategories(category_weights) ==
    SelectSeq(CATEGORIES, LAMBDA cat : ~(Get(category_weights, cat, ONE) <= 0))

\* weighted_z = base_z * base_weight * (TURNOVER_WEIGHT if cat == "TOV" else 1.0)
WeightedZ(cat, base_z, base_weight) ==
    FMul(base_z, IF cat = "TOV" THEN FMul(base_weight, TURNOVER_WEIGHT)
                 ELSE base_weight)

\* manual punts: the categories whose weight is 0
ManualPunts(category_weights) ==
    SelectSeq(CATEGORIES, LAMBDA cat : Get(category_weights, cat, ONE) = 0)

\* every seriously weak category, however many there are
AutoPuntsUncut(z_cats, z_vals) ==
    LET weak_cats == SelectSeq(z_cats, LAMBDA cat : z_vals[cat] < 0)
        serious_weak == SelectSeq(z_cats, LAMBDA cat : z_vals[cat] <= -500)
    IN  IF serious_weak # << >> THEN SortByZAsc(serious_weak, z_vals)
        ELSE IF weak_cats # << >> THEN <<SortByZAsc(weak_cats, z_vals)[1]>>
        ELSE << >>

\* auto punts over z_vals, the z-scores of the categories with weight > 0:
\* the 3 worst of the seriously weak ones, else the single weakest, else none
AutoPunts(z_cats, z_vals) ==
    LET weak_cats == SelectSeq(z_cats, LAMBDA cat : z_vals[cat] < 0)
        serious_weak == SelectSeq(z_cats, LAMBDA cat : z_vals[cat] <= -500)
    IN  IF serious_weak # << >> THEN Take(SortByZAsc(serious_weak, z_vals), 3)
        ELSE IF weak_cats # << >> THEN <<SortByZAsc(weak_cats, z_vals)[1]>>
        ELSE << >>

\* every strength candidate, however many there are
StrengthsUncut(z_cats, z_vals, punt_set) ==
    SortByZDesc(SelectSeq(z_cats, LAMBDA cat : cat \notin punt_set /\ z_vals[cat] >= 400),
                z_vals)

\* strengths: the non-punted categories with z >= 0.4, the top 4 by z
Strengths(z_cats, z_vals, punt_set) ==
    Take(SortByZDesc(SelectSeq(z_cats, LAMBDA cat : cat \notin punt_set
                                                      /\ z_vals[cat] >= 400),
                     z_vals), 4)

\* punts and strengths of a profile given its auto punts
PuntsAndStrengths(tp, manual_punts, auto_punts, z_cats, z_vals) ==
    [tp EXCEPT !.punt_categories =
                    SelectSeq(CATEGORIES, LAMBDA cat : cat \in Range(manual_punts)
                                                          \cup Range(auto_punts)),
               !.strength_categories =
                    Strengths(z_cats, z_vals, Range(manual_punts) \cup Range(auto_punts))]

\* the weighted z-scores written over those of the last application,
\* without starting from an empty dict
ApplyWeightsOverOld(tp, category_weights) ==
    LET W(cat) == Get(category_weights, cat, ONE)
        Z(cat) == Get(tp.raw_zscores, cat, 0)
        scored == ScoredCategories(category_weights)
        weighted == [cat \in Range(scored) |-> WeightedZ(cat, Z(cat), W(cat))]
                        @@ tp.weighted_zscores
        total == SumSeq([i \in DOMAIN scored |-> weighted[scored[i]]])
        z_cats == SelectSeq(CATEGORIES, LAMBDA cat : W(cat) > 0)
        z_vals == [cat \in Range(z_cats) |-> Z(cat)]
    IN  PuntsAndStrengths([tp EXCEPT !.weighted_zscores = weighted,
                                     !.total_score = total],
                          ManualPunts(category_weights),
                          AutoPunts(z_cats, z_vals), z_cats, z_vals)

\* apply_weights_and_scores for one profile
ApplyWeightsToProfile(tp, category_weights) ==
    LET W(cat) == Get(category_weights, cat, ONE)
        Z(cat) == Get(tp.raw_zscores, cat, 0)
        scored == ScoredCategories(category_weights)
        weighted == [cat \in Range(scored) |-> WeightedZ(cat, Z(cat), W(cat))] @@ EmptyDict
        total == SumSeq([i \in DOMAIN scored |-> weighted[scored[i]]])
        z_cats == SelectSeq(CATEGORIES, LAMBDA cat : W(cat) > 0)
        z_vals == [cat \in Range(z_cats) |-> Z(cat)]
    IN  PuntsAndStrengths([tp EXCEPT !.weighted_zscores = weighted,
                                     !.total_score = total],
                          ManualPunts(category_weights),
                          AutoPunts(z_cats, z_vals), z_cats, z_vals)

----------------------------------------------------------------------------
(* analysis/trade.py: preference vector and package score *)

\* a normalised vector: entry cat is num[cat] / den
UniformOverAllCategories == [num |-> [cat \in TradeCatSet |-> 1], den |-> Len(CATEGORIES)]

\* {cat: 1.0 / n for cat in TRADE_CATEGORIES}
UniformPrefs == [num |-> [cat \in TradeCatSet |-> 1], den |-> Len(TRADE_CATEGORIES)]

\* total = sum(scores); uniform 1 / len(TRADE_CATEGORIES) if total <= 0, else
\* score / total
NormalizeOrUniform(scores) ==
    IF SumSeq([c \in DOMAIN TRADE_CATEGORIES |-> scores[TRADE_CATEGORIES[c]]]) <= 0
    THEN UniformPrefs
    ELSE [num |-> scores @@ EmptyDict,
          den |-> SumSeq([c \in DOMAIN TRADE_CATEGORIES |-> scores[TRADE_CATEGORIES[c]]])]

\* the pre-normalisation score of one category
BasicPrefScore(team, category_weights, cat) ==
    LET z == Get(team.raw_zscores, cat, 0)
        w == Get(category_weights, cat, ONE)
        base0 == IF cat \in Range(team.strength_categories) /\ z > 0
                 THEN ONE + SDiv(Max(z, 0), 2)
                 ELSE IF z > 0 THEN 700 + SDiv(3 * z, 10)
                 ELSE 400 + SDiv(2 * (-Min(z, 0)), 10)
        base == IF cat \in Range(team.punt_categories) THEN SDiv(base0 * 3, 10)
                ELSE base0
    IN  Max(0, FMul(base, w))

\* _build_preference_vector
build_preference_vector(team, category_weights) ==
    NormalizeOrUniform([cat \in TradeCatSet |->
                           BasicPrefScore(team, category_weights, cat)])

\* delta_raw * weight for a weight num / den
Weighted(delta_raw, preferences, cat) ==
    SDiv(delta_raw * Get(preferences.num, cat, 0), preferences.den)

\* the result of a package score: the per-category gains, the position
\* gain, and their total
ScoredPackage(per_cat, pos_gain) ==
    [total_gain |-> SumSeq([c \in DOMAIN TRADE_CATEGORIES |->
                               per_cat[TRADE_CATEGORIES[c]]]) + pos_gain,
     per_cat_gain |-> per_cat,
     pos_balance |-> pos_gain]

\* the size of the change per category, whatever its direction
BasicPerCatGainUnsigned(preferences, out_eff, in_eff) ==
    [cat \in TradeCatSet |->
        Weighted(Abs(in_eff[cat] - out_eff[cat]), preferences, cat)] @@ EmptyDict

\* delta_raw = in_eff - out_eff, times the preference weight, per category
BasicPerCatGain(preferences, out_eff, in_eff) ==
    [cat \in TradeCatSet |->
        Weighted(in_eff[cat] - out_eff[cat], preferences, cat)] @@ EmptyDict

\* _score_package_for_team: [total_gain, per_cat_gain]
score_package_for_team(team, preferences, players_out, players_in) ==
    ScoredPackage(BasicPerCatGain(preferences, package_effect_vector(players_out),
                                  package_effect_vector(players_in)),
                  FMul(120, position_balance_delta(team, players_out, players_in)))

----------------------------------------------------------------------------
(* analysis/trade.py: the generated rationale.  The rationale is the       *)
(* record of the sentences _build_ai_reason puts in it.                    *)

\* top_help: the categories with a positive gain, best first, at most 3
top_help(per_cat) ==
    Take(SortByZDesc(SelectSeq(TRADE_CATEGORIES, LAMBDA c : Get(per_cat, c, 0) > 0),
                     per_cat), 3)

\* avg_sev: the mean injury severity of a package as the fraction num / den,
\* 0.0 for no players
avg_sev(players) ==
    [num |-> SumSeq([i \in DOMAIN players |-> injury_severity(players[i])]),
     den |-> Max(1, Len(players))]

\* sev_out > sev_in + 0.2 for the two means
ShedsInjuryRisk(sev_out, sev_in) ==
    sev_out.num * sev_in.den * 5 > sev_in.num * sev_out.den * 5
                                       + ONE * sev_out.den * sev_in.den

\* _build_ai_reason: which sentences the rationale holds
build_ai_reason(team_a, team_b, pack_a, pack_b, per_cat_a, per_cat_b, fairness_score) ==
    [help_a |-> top_help(per_cat_a),
     help_b |-> top_help(per_cat_b),
     injury_a |-> ShedsInjuryRisk(avg_sev(pack_a), avg_sev(pack_b)),
     injury_b |-> ShedsInjuryRisk(avg_sev(pack_b), avg_sev(pack_a)),
     position |-> \/ position_balance_delta(team_a, pack_a, pack_b) > 200
                  \/ position_balance_delta(team_b, pack_b, pack_a) > 200,
     fairness |-> fairness_score]

----------------------------------------------------------------------------
(* analysis/trade_enhanced.py *)

CATEGORY_VOLATILITY ==
    [cat \in TradeCatSet |->
        CASE cat = "PTS" -> 150 [] cat = "REB" -> 120 [] cat = "AST" -> 180
          [] cat = "STL" -> 350 [] cat = "BLK" -> 320 [] cat = "FG%" -> 80
          [] cat = "FT%" -> 100 [] cat = "3PM" -> 250]

\* the table in its declaration order: <<cat1, cat2, corr>>
CATEGORY_CORRELATIONS ==
    << <<"REB", "FG%", 600>>, <<"AST", "PTS", 500>>, <<"STL", "AST", 400>>,
       <<"BLK", "REB", 500>>, <<"3PM", "PTS", 600>> >>

\* math.exp(-x) for x >= 0 at the tenths, rounded to 3 decimals
ExpNegTable ==
    <<1000, 905, 819, 741, 670, 607, 549, 497, 449, 407, 368, 333, 301, 273,
      247, 223, 202, 183, 165, 150, 135, 122, 111, 100, 91, 82, 74, 67, 61,
      55, 50, 45, 41, 37, 33, 30, 27, 25, 22, 20, 18, 17, 15, 14, 12, 11, 10,
      9, 8, 7, 7>>

\* math.exp(-x), x >= 0: the table, interpolated between the tenths
ExpNeg(x) ==
    LET k == x \div 100
        r == x % 100
    IN  IF k + 2 > Len(ExpNegTable) THEN 0
        ELSE ExpNegTable[k + 1]
               - SDiv((ExpNegTable[k + 1] - ExpNegTable[k + 2]) * r, 100)

\* _diminishing_returns
diminishing_returns(value, threshold) ==
    IF value <= 0 THEN value
    ELSE FMul(value, ONE - ExpNeg(FDiv(value, threshold)))

\* _category_swing_value
category_swing_value(current_z, improvement, volatility) ==
    LET effective_improvement ==
            IF current_z > ONE THEN FMul(improvement, FDiv(ONE, ONE + current_z))
            ELSE IF current_z < -500 THEN SDiv(improvement * 15, 10)
            ELSE SDiv(improvement * 12, 10)
        volatility_factor == ONE - SDiv(volatility * 3, 10)
    IN  FMul(effective_improvement, volatility_factor)

\* base need from the team's own z-score
EnhancedBase(team, cat, z) ==
    IF cat \in Range(team.strength_categories) /\ z > 0
    THEN ONE + SDiv(diminishing_returns(z, ONE), 2)
    ELSE IF z > 200 THEN 700 + SDiv(3 * z, 10)
    ELSE IF z > -300 THEN 800 + SDiv(4 * (ONE - Abs(z)), 10)
    ELSE 400 + SDiv(2 * (-Min(z, 0)), 10)

\* the opponent adjustment for margin = z - opp_z
OpponentAdjusted(base, margin) ==
    IF -500 < margin /\ margin < 0 THEN SDiv(base * 13, 10)
    ELSE IF margin > ONE THEN SDiv(base * 7, 10)
    ELSE base

\* base += stability_bonus; base *= 0.2 for a punted category
StabilityAndPunt(team, cat, base, volatility) ==
    IF cat \in Range(team.punt_categories)
    THEN SDiv((base + SDiv((ONE - volatility) * 2, 10)) * 2, 10)
    ELSE base + SDiv((ONE - volatility) * 2, 10)

\* the pre-normalisation score of one category
EnhancedPrefScore(team, category_weights, opponent, cat) ==
    Max(0, FMul(StabilityAndPunt(team, cat,
                    IF opponent = None
                    THEN EnhancedBase(team, cat, Get(team.raw_zscores, cat, 0))
                    ELSE OpponentAdjusted(
                             EnhancedBase(team, cat, Get(team.raw_zscores, cat, 0)),
                             Get(team.raw_zscores, cat, 0)
                                 - Get(opponent.raw_zscores, cat, 0)),
                    Get(CATEGORY_VOLATILITY, cat, 150)),
                Get(category_weights, cat, ONE)))

\* _build_enhanced_preference_vector
build_enhanced_preference_vector(team, category_weights, opponent) ==
    NormalizeOrUniform([cat \in TradeCatSet |->
                           EnhancedPrefScore(team, category_weights, opponent, cat)])

\* the penalty applied for every correlated category already scored,
\* whatever its gain
RECURSIVE CorrelationPenaltyAnyPartner(_, _, _)
CorrelationPenaltyAnyPartner(cat, per_cat_gain, k) ==
    IF k > Len(CATEGORY_CORRELATIONS) THEN ONE
    ELSE LET e == CATEGORY_CORRELATIONS[k]
             factor == ONE - SDiv(e[3] * 3, 10)
             hit == \/ cat = e[1] /\ e[2] \in DOMAIN per_cat_gain
                    \/ cat = e[2] /\ e[1] \in DOMAIN per_cat_gain
             rest == CorrelationPenaltyAnyPartner(cat, per_cat_gain, k + 1)
         IN  IF hit THEN FMul(factor, rest) ELSE rest

\* the correlation penalty of cat given the gains computed so far: the
\* loop over CATEGORY_CORRELATIONS from entry k on
RECURSIVE CorrelationPenalty(_, _, _)
CorrelationPenalty(cat, per_cat_gain, k) ==
    IF k > Len(CATEGORY_CORRELATIONS) THEN ONE
    ELSE LET e == CATEGORY_CORRELATIONS[k]
             factor == ONE - SDiv(e[3] * 3, 10)
             hit == \/ cat = e[1] /\ e[2] \in DOMAIN per_cat_gain
                        /\ per_cat_gain[e[2]] > 0
                    \/ cat = e[2] /\ e[1] \in DOMAIN per_cat_gain
                        /\ per_cat_gain[e[1]] > 0
             rest == CorrelationPenalty(cat, per_cat_gain, k + 1)
         IN  IF hit THEN FMul(factor, rest) ELSE rest

\* the category loop of _score_package_enhanced from category c on, given
\* the gains of the categories before it
RECURSIVE EnhancedCatLoop(_, _, _, _, _)
EnhancedCatLoop(team, preferences, delta_raw, per_cat_gain, c) ==
    IF c > Len(TRADE_CATEGORIES) THEN per_cat_gain
    ELSE LET cat == TRADE_CATEGORIES[c]
             current_z == Get(team.raw_zscores, cat, 0)
             volatility == Get(CATEGORY_VOLATILITY, cat, 150)
             swing_value == category_swing_value(current_z, delta_raw[cat], volatility)
             delta0 == Weighted(swing_value, preferences, cat)
             delta == FMul(delta0, CorrelationPenalty(cat, per_cat_gain, 1))
         IN  EnhancedCatLoop(team, preferences, delta_raw,
                             (cat :> delta) @@ per_cat_gain, c + 1)

\* delta_raw = in_eff - out_eff per category
DeltaRaw(out_eff, in_eff) ==
    [cat \in TradeCatSet |-> in_eff[cat] - out_eff[cat]] @@ EmptyDict

\* _score_package_enhanced: [total_gain, per_cat_gain]
score_package_enhanced(team, preferences, players_out, players_in) ==
    ScoredPackage(EnhancedCatLoop(team, preferences,
                                  DeltaRaw(package_effect_vector(players_out),
                                           package_effect_vector(players_in)),
                                  EmptyDict, 1),
                  FMul(150, position_balance_delta(team, players_out, players_in)))

----------------------------------------------------------------------------
(* The package search shared by generate_trade_suggestions and             *)
(* generate_enhanced_trade_suggestions.  A package is the sequence of the  *)
(* roster positions of its players.                                        *)

\* list(combinations(range(n), size)) for size 1 and 2, in itertools order
Combinations(n, size) ==
    IF size = 1 THEN [i \in 1..n |-> <<i>>]
    ELSE LET all == [k \in 1..(n * n) |-> <<((k - 1) \div n) + 1, ((k - 1) % n) + 1>>]
         IN  SelectSeq(all, LAMBDA p : p[1] < p[2])

\* the players of a package
PackOf(team, idx) == [k \in DOMAIN idx |-> team.players[idx[k]]]

\* {p.display_name for p in pack}
NameSet(pack) == {pack[k].display_name : k \in DOMAIN pack}

\* the loops over sizes (1, 2) x (1, 2) and over the combinations:
\* the pairs <<pack_a, pack_b>> in the order the program visits them
RECURSIVE Concat(_)
Concat(ss) == IF ss = << >> THEN << >> ELSE Head(ss) \o Concat(Tail(ss))

PairsOfSizes(na, nb, size_a, size_b) ==
    LET combos_a == Combinations(na, size_a)
        combos_b == Combinations(nb, size_b)
    IN  Concat([i \in DOMAIN combos_a |->
                   [j \in DOMAIN combos_b |-> <<combos_a[i], combos_b[j]>>]])

CandidatePairs(na, nb) ==
    PairsOfSizes(na, nb, 1, 1) \o PairsOfSizes(na, nb, 1, 2)
        \o PairsOfSizes(na, nb, 2, 1) \o PairsOfSizes(na, nb, 2, 2)

SameNameSwapIgnored(pack_a, pack_b) == FALSE

\* if names_a == names_b: continue
SameNameSwap(pack_a, pack_b) == NameSet(pack_a) = NameSet(pack_b)

\* not (fit_a <= 0.0 or fit_b <= 0.0)
BothGain(fit_a, fit_b) == ~(fit_a <= 0 \/ fit_b <= 0)

FairEnoughStrict(fairness) == ~(fairness.num * 100 < 95 * fairness.den)

FairEnoughLoose(fairness) == ~(fairness.num * 100 < 80 * fairness.den)

\* not (fairness < 0.85)
FairEnough(fairness) == ~(fairness.num * 100 < 85 * fairness.den)

\* total_fit * fairness
RankScore(total_fit, fairness) == SDiv(total_fit * fairness.num, fairness.den)

\* suggestions.sort(key = score, reverse = True): stable
RECURSIVE SortByScoreDesc(_)
SortByScoreDesc(ss) ==
    IF ss = << >> THEN << >>
    ELSE LET rest == SortByScoreDesc(SubSeq(ss, 1, Len(ss) - 1))
             x == ss[Len(ss)]
         IN  SelectSeq(rest, LAMBDA y : y.score >= x.score) \o <<x>>
                 \o SelectSeq(rest, LAMBDA y : y.score < x.score)

\* one iteration of the inner loop: what it computed for the pair of
\* packages, and whether the filters keep it (names differ, both fits
\* positive, total fit above the significance threshold, fairness at least
\* 0.85)
Candidate(pair, same_names, fit_a, fit_b, value_a, value_b, fairness, threshold) ==
    [keep |-> /\ ~same_names
              /\ BothGain(fit_a, fit_b)
              /\ ~(fit_a + fit_b <= threshold)
              /\ FairEnough(fairness),
     same_names |-> same_names,
     from_a |-> pair[1], from_b |-> pair[2],
     gain_a |-> fit_a, gain_b |-> fit_b,
     value_a |-> value_a, value_b |-> value_b,
     score |-> RankScore(fit_a + fit_b, fairness),
     fairness |-> fairness]

BasicCandidateOf(team_a, team_b, prefs_a, prefs_b, category_weights, pair, pack_a, pack_b) ==
    Candidate(pair, SameNameSwap(pack_a, pack_b),
              score_package_for_team(team_a, prefs_a, pack_a, pack_b).total_gain,
              score_package_for_team(team_b, prefs_b, pack_b, pack_a).total_gain,
              PackageValue(pack_a, category_weights),
              PackageValue(pack_b, category_weights),
              fairness_score_for_packages(pack_a, pack_b, category_weights), 50)

\* one iteration of the inner loop of generate_trade_suggestions
BasicCandidate(team_a, team_b, prefs_a, prefs_b, category_weights, pair) ==
    BasicCandidateOf(team_a, team_b, prefs_a, prefs_b, category_weights, pair,
                     PackOf(team_a, pair[1]), PackOf(team_b, pair[2]))

EnhancedCandidateOf(team_a, team_b, prefs_a, prefs_b, category_weights, pair, pack_a, pack_b) ==
    Candidate(pair, SameNameSwap(pack_a, pack_b),
              score_package_enhanced(team_a, prefs_a, pack_a, pack_b).total_gain,
              score_package_enhanced(team_b, prefs_b, pack_b, pack_a).total_gain,
              PackageValue(pack_a, category_weights),
              PackageValue(pack_b, category_weights),
              fairness_score_for_packages(pack_a, pack_b, category_weights), 80)

\* one iteration of the inner loop of generate_enhanced_trade_suggestions
EnhancedCandidate(team_a, team_b, prefs_a, prefs_b, category_weights, pair) ==
    EnhancedCandidateOf(team_a, team_b, prefs_a, prefs_b, category_weights, pair,
                        PackOf(team_a, pair[1]), PackOf(team_b, pair[2]))

\* the pooled roster split back into the two teams
SplitPool(team_a, team_b, all_players) ==
    <<[team_a EXCEPT !.players = SubSeq(all_players, 1, Len(team_a.players))],
      [team_b EXCEPT !.players = SubSeq(all_players, Len(team_a.players) + 1,
                                        Len(all_players))]>>

\* the two profiles with the local z-scores of the pooled rosters written
\* on their players' stat lines
WithLocalZ(team_a, team_b) ==
    SplitPool(team_a, team_b, compute_local_player_z(team_a.players \o team_b.players))

Suggestion(c) ==
    [from_a |-> c.from_a, from_b |-> c.from_b, gain_a |-> c.gain_a,
     gain_b |-> c.gain_b, score |-> c.score, fairness |-> c.fairness]

\* the kept candidates in the order the loop appended them
AppendedSuggestions(kept) == [k \in DOMAIN kept |-> Suggestion(kept[k])]

\* suggestions.append(...) for the kept candidates, then the sort
SortedSuggestions(kept) ==
    SortByScoreDesc([k \in DOMAIN kept |-> Suggestion(kept[k])])

BasicCandidates(team_a, team_b, prefs_a, prefs_b, category_weights, pairs) ==
    [k \in DOMAIN pairs |->
        BasicCandidate(team_a, team_b, prefs_a, prefs_b, category_weights, pairs[k])]

EnhancedCandidates(team_a, team_b, prefs_a, prefs_b, category_weights, pairs) ==
    [k \in DOMAIN pairs |->
        EnhancedCandidate(team_a, team_b, prefs_a, prefs_b, category_weights, pairs[k])]

\* what a call leaves behind: the profiles with their local z-scores, the
\* iterations of the loop, and the list returned, the first max_trades of
\* the kept suggestions in descending score order
TradeResult(z, considered, prefs_a, prefs_b, max_trades) ==
    [team_a |-> z[1], team_b |-> z[2],
     prefs_a |-> prefs_a, prefs_b |-> prefs_b,
     considered |-> considered,
     suggestions |->
        Take(SortedSuggestions(SelectSeq(considered, LAMBDA c : c.keep)), max_trades)]

\* the loop of generate_trade_suggestions over every pair of packages
BasicResultWith(z, prefs_a, prefs_b, category_weights, max_trades) ==
    TradeResult(z,
                BasicCandidates(z[1], z[2], prefs_a, prefs_b, category_weights,
                                CandidatePairs(Len(z[1].players), Len(z[2].players))),
                prefs_a, prefs_b, max_trades)

BasicResultFrom(z, category_weights, max_trades) ==
    BasicResultWith(z, build_preference_vector(z[1], category_weights),
                    build_preference_vector(z[2], category_weights),
                    category_weights, max_trades)

\* generate_trade_suggestions: the profiles as the call leaves them and the
\* list it returns
generate_trade_suggestions(team_a, team_b, category_weights, max_trades) ==
    BasicResultFrom(WithLocalZ(team_a, team_b), category_weights, max_trades)

\* the loop of generate_enhanced_trade_suggestions
EnhancedResultWith(z, prefs_a, prefs_b, category_weights, max_trades) ==
    TradeResult(z,
                EnhancedCandidates(z[1], z[2], prefs_a, prefs_b, category_weights,
                                   CandidatePairs(Len(z[1].players), Len(z[2].players))),
                prefs_a, prefs_b, max_trades)

EnhancedResultFrom(z, category_weights, max_trades, consider_opponent) ==
    EnhancedResultWith(z,
        build_enhanced_preference_vector(z[1], category_weights,
            IF consider_opponent THEN z[2] ELSE None),
        build_enhanced_preference_vector(z[2], category_weights,
            IF consider_opponent THEN z[1] ELSE None),
        category_weights, max_trades)

\* generate_enhanced_trade_suggestions
generate_enhanced_trade_suggestions(team_a, team_b, category_weights, max_trades, consider_opponent) ==
    EnhancedResultFrom(WithLocalZ(team_a, team_b), category_weights, max_trades,
                       consider_opponent)

----------------------------------------------------------------------------
(* core/league.py: building the profiles *)

\* one roster player of the league provider mapped to a RosterPlayer: the
\* stat line found by name (all zero when the name is unknown) and the
\* injury severity of the provider's status texts
BuildRosterPlayer(player, team_abbrev, nba_players_by_name) ==
    [display_name |-> player.name,
     fantasy_position |-> player.position,
     fantasy_team_abbrev |-> team_abbrev,
     nba_team_abbrev |-> player.proTeam,
     stats |->
        [k \in CatSet \cup {INJURY_KEY} |->
            IF k = INJURY_KEY
            THEN estimate_injury_severity(player.injuryStatus,
                                          player.injuryStatusDescription)
            ELSE IF player.name \in DOMAIN nba_players_by_name
                 THEN Get(nba_players_by_name[player.name], k, 0)
                 ELSE 0]]

ProfileOf(team, nba_players_by_name, players) ==
    [team_id |-> team.team_id,
     team_abbrev |-> team.team_abbrev,
     players |-> players,
     category_totals |->
        [cat \in CatSet |->
            SumSeq([i \in DOMAIN players |->
                       IF team.roster[i].name \in DOMAIN nba_players_by_name
                       THEN players[i].stats[cat] ELSE 0])],
     raw_zscores |-> EmptyDict,
     weighted_zscores |-> EmptyDict,
     total_score |-> 0,
     strength_categories |-> << >>,
     punt_categories |-> << >>]

\* the first pass of aggregate_team_profiles for one team
BuildProfile(team, nba_players_by_name) ==
    ProfileOf(team, nba_players_by_name,
              [i \in DOMAIN team.roster |->
                  BuildRosterPlayer(team.roster[i], team.team_abbrev,
                                    nba_players_by_name)])

----------------------------------------------------------------------------
(* core/matchup.py.  A box-score value is NumVal(v), a number given in     *)
(* thousandths, TextVal, a value float() rejects, or NoneVal.  A category  *)
(* cell is a dict with some of the keys "value", "score" and "result"; a   *)
(* stats dict maps some categories to cells.                               *)

NumVal(v) == [kind |-> "num", v |-> v]

TextVal == [kind |-> "text", v |-> 0]

NoneVal == [kind |-> "none", v |-> 0]

NoLeague == [kind |-> "none"]

NoMatchup == [found |-> FALSE]

\* the loop of get_matchup_stats_for_team from box score k on
RECURSIVE FindMatchup(_, _, _)
FindMatchup(box_scores, team_abbrev, k) ==
    IF k > Len(box_scores) THEN NoMatchup
    ELSE IF box_scores[k].home_abbrev = team_abbrev
         THEN [found |-> TRUE, my |-> box_scores[k].home_stats,
               opp |-> box_scores[k].away_stats]
    ELSE IF box_scores[k].away_abbrev = team_abbrev
         THEN [found |-> TRUE, my |-> box_scores[k].away_stats,
               opp |-> box_scores[k].home_stats]
    ELSE FindMatchup(box_scores, team_abbrev, k + 1)

\* get_matchup_stats_for_team: None when box_scores() raises, is empty, or
\* holds no box score of the team
get_matchup_stats_for_team(league, team_abbrev) ==
    IF league.box_error THEN NoMatchup
    ELSE IF league.box_scores = << >> THEN NoMatchup
    ELSE FindMatchup(league.box_scores, team_abbrev, 1)

\* cat_dict.get("value", cat_dict.get("score"))
CellValue(cell) == Get(cell, "value", Get(cell, "score", NoneVal))

\* the need of a category from the two parsed values, in thousandths:
\* rel = |margin| / max(|opp|, 1e-3);  rel < 0.05 is 20 * |margin| < denom,
\* rel < 0.15 is 100 * |margin| < 15 * denom
NeedOfMargin(margin, denom) ==
    IF margin >= 0
    THEN IF 20 * Abs(margin) < denom
         THEN SDiv(400 * (denom - 20 * Abs(margin)), denom)
         ELSE 0
    ELSE IF 20 * Abs(margin) < denom THEN ONE
    ELSE IF 100 * Abs(margin) < 15 * denom THEN 600
    ELSE 200

\* one iteration of the category loop: the need of cat before punts
CategoryNeedOf(cat, my_val, opp_val) ==
    IF my_val.kind = "none" \/ opp_val.kind = "none" THEN 0
    ELSE IF my_val.kind # "num" \/ opp_val.kind # "num" THEN 0
    ELSE NeedOfMargin(IF cat = "TOV" THEN opp_val.v - my_val.v
                      ELSE my_val.v - opp_val.v,
                      Max(Abs(opp_val.v), 1))

CategoryNeed(cat, my_stats_raw, opp_stats_raw) ==
    CategoryNeedOf(cat, CellValue(Get(my_stats_raw, cat, EmptyDict)),
                   CellValue(Get(opp_stats_raw, cat, EmptyDict)))

PuntKept(need, cat, punt_set) == need

\* need[cat] *= 0.1 for a punted category
PuntApplied(need, cat, punt_set) ==
    IF cat \in punt_set THEN SDiv(need, 10) ELSE need

\* the need vector before normalisation
MatchupNeedRaw(stats_pair, team) ==
    [cat \in CatSet |->
        PuntApplied(CategoryNeed(cat, stats_pair.my, stats_pair.opp), cat,
                    Range(team.punt_categories))] @@ EmptyDict

ZeroNeed == [cat \in CatSet |-> 0]

NeedTotal(need) == SumSeq([c \in DOMAIN CATEGORIES |-> need[CATEGORIES[c]]])

NeedUnnormalised(need) == [num |-> need, den |-> ONE]

\* total = sum(need.values()); need itself if total <= 0, else val / total.
\* The vector returned is num[cat] / den.
NeedNormalised(need) ==
    IF NeedTotal(need) <= 0 THEN [num |-> need, den |-> ONE]
    ELSE [num |-> need, den |-> NeedTotal(need)]

MatchupNeedFrom(stats_pair, team) ==
    IF ~stats_pair.found THEN [raw |-> ZeroNeed, vector |-> NeedNormalised(ZeroNeed)]
    ELSE [raw |-> MatchupNeedRaw(stats_pair, team),
          vector |-> NeedNormalised(MatchupNeedRaw(stats_pair, team))]

\* matchup_need_vector: the vector returned, and the needs before
\* normalisation
matchup_need_vector(league, team) ==
    IF league = NoLeague THEN [raw |-> ZeroNeed, vector |-> [num |-> ZeroNeed, den |-> ONE]]
    ELSE MatchupNeedFrom(get_matchup_stats_for_team(league, team.team_abbrev), team)

----------------------------------------------------------------------------
(* analysis/streaming.py.  A need vector is num[cat] / den over the trade  *)
(* categories.                                                             *)

TradeTotal(num) == SumSeq([c \in DOMAIN TRADE_CATEGORIES |-> num[TRADE_CATEGORIES[c]]])

\* total = sum(needs.values()); needs[cat] /= total if total > 0
StreamingNormalised(num) ==
    IF TradeTotal(num) > 0 THEN [num |-> num, den |-> TradeTotal(num)]
    ELSE [num |-> num, den |-> ONE]

\* _build_streaming_needs: max(0, opp_z - my_z) * w with an opponent,
\* max(0, -my_z) * w without
build_streaming_needs(my_team, opponent, category_weights) ==
    StreamingNormalised(
        [cat \in TradeCatSet |->
            IF opponent # None
            THEN FMul(Max(0, Get(opponent.raw_zscores, cat, 0)
                               - Get(my_team.raw_zscores, cat, 0)),
                      Get(category_weights, cat, ONE))
            ELSE FMul(Max(0, -Get(my_team.raw_zscores, cat, 0)),
                      Get(category_weights, cat, ONE))] @@ EmptyDict)

\* needs[cat] *= w on the live needs full.num / full.den, then the second
\* normalisation: the weights are in thousandths, so the blended vector is
\* num * w over den * ONE before it, and num * w over its total after it
BlendedNeeds(full, blended) ==
    IF TradeTotal(blended) > 0 THEN [num |-> blended, den |-> TradeTotal(blended)]
    ELSE [num |-> blended, den |-> full.den * ONE]

\* the live needs blended with the weights whether or not any is positive
StreamingNeedsNoFallback(full, my_team, opponent, category_weights) ==
    BlendedNeeds(full,
        [cat \in TradeCatSet |->
            full.num[cat] * Get(category_weights, cat, ONE)] @@ EmptyDict)

\* step 1 of recommend_streaming_adds: the needs from the live matchup
\* vector, or the season-long fallback when the live vector is all zero
StreamingNeeds(full, my_team, opponent, category_weights) ==
    IF TradeTotal(full.num) > 0
    THEN BlendedNeeds(full,
             [cat \in TradeCatSet |->
                 full.num[cat] * Get(category_weights, cat, ONE)] @@ EmptyDict)
    ELSE build_streaming_needs(my_team, opponent, category_weights)

\* the RosterPlayer built for a free agent the stat source knows
WaiverPlayer(p, nba_players_by_name) ==
    [display_name |-> p.name,
     fantasy_position |-> p.position,
     fantasy_team_abbrev |-> "FA",
     nba_team_abbrev |-> p.proTeam,
     stats |->
        [k \in CatSet \cup {INJURY_KEY} |->
            IF k = INJURY_KEY
            THEN estimate_injury_severity(p.injuryStatus, p.injuryStatusDescription)
            ELSE Get(nba_players_by_name[p.name], k, 0)] @@ EmptyDict]

\* the known free agents, in the provider's order
KnownFreeAgents(fa_raw, nba_players_by_name) ==
    SelectSeq(fa_raw, LAMBDA p : p.name \in DOMAIN nba_players_by_name)

\* the same with every free agent kept, all zero without a stat line
WaiverPoolKeepingUnknown(league, nba_players_by_name) ==
    IF league = NoLeague THEN << >>
    ELSE IF league.fa_error THEN << >>
    ELSE [i \in DOMAIN league.free_agents |->
             IF league.free_agents[i].name \in DOMAIN nba_players_by_name
             THEN WaiverPlayer(league.free_agents[i], nba_players_by_name)
             ELSE WaiverPlayer(league.free_agents[i],
                               [n \in {league.free_agents[i].name} |-> EmptyDict])]

\* step 2: league.free_agents(size=200), [] when the call raises, and the
\* free agents without a stat line skipped
WaiverPool(league, nba_players_by_name) ==
    IF league = NoLeague THEN << >>
    ELSE IF league.fa_error THEN << >>
    ELSE [i \in DOMAIN KnownFreeAgents(league.free_agents, nba_players_by_name) |->
             WaiverPlayer(KnownFreeAgents(league.free_agents, nba_players_by_name)[i],
                          nba_players_by_name)]

\* contrib = eff[cat] * needs.get(cat, 0.0)
StreamContrib(eff, needs) ==
    [cat \in TradeCatSet |-> SDiv(eff[cat] * Get(needs.num, cat, 0), needs.den)]
        @@ EmptyDict

\* the explanation, as the list of its sentences
StreamExplanation(cats_helped, playing_today, sev) ==
    (IF cats_helped # << >> THEN <<"Boosts">> ELSE << >>)
        \o (IF playing_today THEN <<"Plays today">> ELSE << >>)
        \o (IF sev >= 600 THEN <<"Carries notable injury risk">>
            ELSE IF sev >= 300 THEN <<"Minor injury notes to monitor">>
            ELSE << >>)

\* sorted(cats with contrib > 0, by contrib, descending)[:4]
CatsHelped(contrib) ==
    Take(SortByZDesc(SelectSeq(TRADE_CATEGORIES, LAMBDA c : contrib[c] > 0), contrib), 4)

ScheduleIgnored(teams_playing, nba_team) == FALSE

\* teams_playing and nba_team not in teams_playing
NotOnSchedule(teams_playing, nba_team) ==
    teams_playing # {} /\ nba_team \notin teams_playing

\* one iteration of the loop over the waiver pool: the entry built for rp,
\* and whether the loop appends it
StreamEntryOf(rp, contrib, cats_helped, nba_team, teams_playing, sev) ==
    [keep |-> /\ ~NotOnSchedule(teams_playing, nba_team)
              /\ ~(TradeTotal(contrib) <= 0),
     player |-> rp,
     score |-> TradeTotal(contrib),
     contrib_by_cat |-> contrib,
     cats_helped |-> cats_helped,
     injury_sev |-> sev,
     playing_today |-> teams_playing = {} \/ nba_team \in teams_playing,
     explanation |->
        StreamExplanation(cats_helped,
                          teams_playing = {} \/ nba_team \in teams_playing, sev)]

StreamEntryFrom(rp, contrib, teams_playing) ==
    StreamEntryOf(rp, contrib, CatsHelped(contrib), Upper(rp.nba_team_abbrev),
                  teams_playing, injury_severity(rp))

StreamEntry(rp, needs, teams_playing) ==
    StreamEntryFrom(rp, StreamContrib(player_effect_vector(rp), needs), teams_playing)

\* the result dict of a kept entry
StreamResult(e) ==
    [player |-> e.player, score |-> e.score, cats_helped |-> e.cats_helped,
     injury_sev |-> e.injury_sev, playing_today |-> e.playing_today,
     explanation |-> e.explanation]

StreamResults(kept) == [k \in DOMAIN kept |-> StreamResult(kept[k])]

\* steps 3 to 5 on a non-empty waiver pool that carries its local z-scores
StreamingFrom(needs, pool, teams_playing, max_results, entries) ==
    [needs |-> needs,
     pool |-> pool,
     entries |-> entries,
     results |-> Take(SortByScoreDesc(StreamResults(SelectSeq(entries,
                                                              LAMBDA e : e.keep))),
                      max_results)]

StreamingOver(needs, pool, teams_playing, max_results) ==
    StreamingFrom(needs, pool, teams_playing, max_results,
                  [i \in DOMAIN pool |-> StreamEntry(pool[i], needs, teams_playing)])

StreamingWith(needs, waiver_players, teams_playing, max_results) ==
    IF waiver_players = << >>
    THEN [needs |-> needs, pool |-> << >>, entries |-> << >>, results |-> << >>]
    ELSE StreamingOver(needs, compute_local_player_z(waiver_players), teams_playing,
                       max_results)

\* recommend_streaming_adds; teams_playing is what _teams_playing_on(game_date)
\* returned, and the parameter profiles, which the function does not read,
\* is left out.  The list returned is .results.
recommend_streaming_adds(league, my_team, opponent, category_weights, nba_players_by_name, teams_playing, max_results) ==
    StreamingWith(StreamingNeeds(matchup_need_vector(league, my_team).vector,
                                 my_team, opponent, category_weights),
                  WaiverPool(league, nba_players_by_name), teams_playing, max_results)

----------------------------------------------------------------------------
(* The state.  The model has one component per part of the program: the   *)
(* trade analyzer session, the injury estimate of one player, the         *)
(* fairness of two package values, the live matchup, and the streaming    *)
(* page.  A specification runs one component and leaves the others idle.  *)

VARIABLES
    profiles,           \* st.session_state.team_profiles
    category_weights,   \* st.session_state.category_weights
    suggestions,        \* the list the analysis returned
    considered,         \* the iterations of its package loop, in loop order
    prefs,              \* <<prefs_a, prefs_b>> as it built them
    last_call           \* which analysis ran, and on which teams

trade_vars == <<profiles, category_weights, suggestions, considered, prefs, last_call>>

VARIABLES
    status_raw,     \* the provider's injuryStatus
    detail_raw,     \* the provider's injuryStatusDescription
    estimate,       \* what estimate_injury_severity computed, or NotRun
    player,         \* a RosterPlayer with local z-scores on its stat line
    discounted      \* its effect vector and market value, or NotRun

injury_vars == <<status_raw, detail_raw, estimate, player, discounted>>

VARIABLES
    val_a,          \* the summed market value of package A
    val_b,          \* the summed market value of package B
    unit,           \* the steps per 1.0 of val_a and val_b
    fairness        \* the fairness computed for them, or NotRun

fairness_vars == <<val_a, val_b, unit, fairness>>

VARIABLES
    league,         \* the league connection, or NoLeague
    my_team,        \* the profile of the user's team
    matchup,        \* what matchup_need_vector computed, or NotRun
    opponent,       \* the opponent's profile, or None
    stream_weights, \* the category weights passed to the recommender
    teams_playing,  \* what _teams_playing_on(game_date) returned
    max_results,    \* max_results
    streaming       \* what recommend_streaming_adds computed, or NotRun

matchup_vars == <<league, my_team, matchup>>

stream_vars == <<opponent, stream_weights, teams_playing, max_results, streaming>>

VARIABLES
    pos_team,       \* a team whose players carry the provider's position strings
    balance         \* what position_balance_delta computed for a swap, or NotRun

position_vars == <<pos_team, balance>>

VARIABLES
    raw_profiles,   \* the team profiles as aggregate_team_profiles left them
    slider_weights, \* the category weights of the sidebar sliders
    scored          \* the profiles after apply_weights_and_scores, or NotRun

scoring_vars == <<raw_profiles, slider_weights, scored>>

VARIABLES
    stat_provider,  \* the stat provider: the per-game lines it serves, or down
    nba_players,    \* what build_nba_universe returned or raised, or NotRun
    espn,           \* the league provider: its teams and rosters
    connected,      \* what connect_league returned or raised, or NotRun
    local_pool      \* a player pool after _compute_local_player_z, or NotRun

connect_vars == <<stat_provider, nba_players, espn, connected, local_pool>>

VARIABLES
    enh_team,       \* the scored profile of the team the swap is valued for
    enh_weights,    \* the category weights of the sliders
    enh_opponent,   \* the opponent's profile, or None
    enh_delta,      \* the swap's raw delta per category: in_eff - out_eff
    enh_prefs,      \* what _build_enhanced_preference_vector computed, or NotRun
    enh_gain        \* what the loop of _score_package_enhanced computed, or NotRun

enhanced_vars == <<enh_team, enh_weights, enh_opponent, enh_delta, enh_prefs, enh_gain>>

vars ==
    <<profiles, category_weights, suggestions, considered, prefs, last_call,
      status_raw, detail_raw, estimate, player, discounted,
      val_a, val_b, unit, fairness,
      league, my_team, matchup,
      opponent, stream_weights, teams_playing, max_results, streaming,
      pos_team, balance,
      raw_profiles, slider_weights, scored,
      stat_provider, nba_players, espn, connected, local_pool,
      enh_team, enh_weights, enh_opponent, enh_delta, enh_prefs, enh_gain>>

\* a computation that has not run
NotRun == [run |-> FALSE]

----------------------------------------------------------------------------
(* The trade analyzer session: two loaded profiles, the category weights   *)
(* of the sidebar, and one trade analysis on them.  Beside the list the    *)
(* analysis returns, the state records what the analysis computed on the   *)
(* way: the two preference vectors and every iteration of the package loop.*)

\* the longest roster of a modelled team
MaxRoster == 2

\* max_trades: int = 3
MAX_TRADES == 3

\* the stat source: per-game lines by player name
StatLine(pts, reb, ast) ==
    [cat \in {"PTS", "REB", "AST"} |->
        CASE cat = "PTS" -> pts [] cat = "REB" -> reb [] cat = "AST" -> ast]

NbaPlayersByName ==
    [n \in {"Ace", "Big", "Xavier", "Bo", "Doc"} |->
        CASE n = "Ace" -> StatLine(2, 0, 4)
          [] n = "Big" -> StatLine(0, 0, 0)
          [] n = "Xavier" -> StatLine(1, 0, 3)
          [] n = "Bo" -> StatLine(4, 0, 2)
          [] n = "Doc" -> StatLine(3, 0, 3)]

\* the other team's Xavier is a different player with the same display name
NbaPlayersByNameB == [NbaPlayersByName EXCEPT !["Xavier"] = StatLine(3, 0, 1)]

ProviderPlayer(name, position, status, detail) ==
    [name |-> name, position |-> position, proTeam |-> "NBA",
     injuryStatus |-> status, injuryStatusDescription |-> detail]

TxtQuestionable == <<"Q", "u", "e", "s", "t", "i", "o", "n", "a", "b", "l", "e">>

TxtOut2Days == <<"o", "u", "t", " ", "2", " ", "d", "a", "y", "s">>

\* the players each modelled team can hold, in roster order
PoolA ==
    <<ProviderPlayer("Ace", <<"P", "G">>, << >>, << >>),
      ProviderPlayer("Big", <<"C">>, << >>, << >>),
      ProviderPlayer("Xavier", <<"S", "G">>, << >>, << >>)>>

PoolB ==
    <<ProviderPlayer("Bo", <<"P", "G">>, << >>, << >>),
      ProviderPlayer("Doc", <<"P", "G", "/", "S", "G">>, TxtQuestionable, TxtOut2Days),
      ProviderPlayer("Xavier", <<"S", "G">>, << >>, << >>)>>

RECURSIVE SetToSortedSeq(_)
SetToSortedSeq(S) ==
    IF S = {} THEN << >>
    ELSE <<CHOOSE x \in S : \A y \in S : x <= y>>
             \o SetToSortedSeq(S \ {CHOOSE x \in S : \A y \in S : x <= y})

\* the players of a pool at the positions idx
PickFrom(pool, idx) == [k \in DOMAIN idx |-> pool[idx[k]]]

\* the rosters of at most MaxRoster players drawn from a pool, in pool order
RostersOf(pool) ==
    {PickFrom(pool, SetToSortedSeq(S)) :
        S \in {T \in SUBSET (DOMAIN pool) : Cardinality(T) <= MaxRoster}}

ZVector(pts, ast) ==
    [cat \in CatSet |-> CASE cat = "PTS" -> pts [] cat = "AST" -> ast [] OTHER -> 0]

\* league z-scores of the two teams: <<team 1, team 2>>
ZProfiles ==
    {<<ZVector(1500, -1000), ZVector(-1000, 1500)>>,
     <<ZVector(-1000, 1500), ZVector(1500, -1000)>>,
     <<ZVector(-1000, -500), ZVector(-500, -1000)>>,
     <<ZVector(0, 0), ZVector(0, 0)>>}

WeightChoices ==
    {[cat \in CatSet |-> ONE],
     [cat \in CatSet |-> CASE cat = "FG%" -> 0 [] cat = "PTS" -> 1500 [] OTHER -> ONE],
     [cat \in CatSet |-> 0]}

\* connect_league for the two modelled teams of a league: the profiles
\* built from the rosters, with the league z-scores of the two teams, after
\* apply_weights_and_scores
LoadedProfiles(roster_a, roster_b, z, weights) ==
    <<ApplyWeightsToProfile(
          [BuildProfile([team_id |-> 1, team_abbrev |-> "TA", roster |-> roster_a],
                        NbaPlayersByName) EXCEPT !.raw_zscores = z[1]], weights),
      ApplyWeightsToProfile(
          [BuildProfile([team_id |-> 2, team_abbrev |-> "TB", roster |-> roster_b],
                        NbaPlayersByNameB) EXCEPT !.raw_zscores = z[2]], weights)>>

NoCall == [engine |-> "none", a |-> 0, b |-> 0, consider_opponent |-> FALSE]

TradeInit ==
    /\ \E ra \in RostersOf(PoolA), rb \in RostersOf(PoolB), z \in ZProfiles,
          w \in WeightChoices :
          /\ profiles = LoadedProfiles(ra, rb, z, w)
          /\ category_weights = w
    /\ suggestions = << >>
    /\ considered = << >>
    /\ prefs = << >>
    /\ last_call = NoCall

\* the state a call leaves: r is what the engine returned
AfterCall(a, b, r) ==
    /\ profiles' = [profiles EXCEPT ![a] = r.team_a, ![b] = r.team_b]
    /\ suggestions' = r.suggestions
    /\ considered' = r.considered
    /\ prefs' = <<r.prefs_a, r.prefs_b>>
    /\ UNCHANGED category_weights

\* the Generate Trade Ideas button with the basic engine, team A = a, team B = b
GenerateTrades(a, b) ==
    /\ last_call = NoCall
    /\ a # b
    /\ \E r \in {generate_trade_suggestions(profiles[a], profiles[b],
                                             category_weights, MAX_TRADES)} :
          AfterCall(a, b, r)
    /\ last_call' = [engine |-> "basic", a |-> a, b |-> b, consider_opponent |-> FALSE]
    /\ UNCHANGED <<injury_vars, fairness_vars, matchup_vars, stream_vars,
                 position_vars, scoring_vars, connect_vars,
                   enhanced_vars>>

\* the Generate Trade Ideas button with Enhanced Analysis ticked
GenerateEnhancedTrades(a, b, consider_opponent) ==
    /\ last_call = NoCall
    /\ a # b
    /\ \E r \in {generate_enhanced_trade_suggestions(profiles[a], profiles[b],
                      category_weights, MAX_TRADES, consider_opponent)} :
          AfterCall(a, b, r)
    /\ last_call' = [engine |-> "enhanced", a |-> a, b |-> b,
                     consider_opponent |-> consider_opponent]
    /\ UNCHANGED <<injury_vars, fairness_vars, matchup_vars, stream_vars,
                 position_vars, scoring_vars, connect_vars,
                   enhanced_vars>>

TradeNext ==
    \/ \E a \in DOMAIN profiles, b \in DOMAIN profiles : GenerateTrades(a, b)
    \/ \E a \in DOMAIN profiles, b \in DOMAIN profiles, o \in BOOLEAN :
          GenerateEnhancedTrades(a, b, o)

----------------------------------------------------------------------------
(* Injury severity and the durability discount.  A provider player's       *)
(* status and description are estimated into a severity, the severity is   *)
(* stashed in the player's stat line (league.py), and the trade helpers    *)
(* discount the player's effect vector and market value by it.             *)

\* the status texts of the modelled provider players
StatusTexts ==
    <<<< >>,
      <<"O", "U", "T">>,
      <<"o", "u", "t">>,
      <<"I", "N", "J">>,
      <<"I", "R">>,
      <<"I", "L">>,
      <<"D", "o", "u", "b", "t", "f", "u", "l">>,
      <<"Q", "u", "e", "s", "t", "i", "o", "n", "a", "b", "l", "e">>,
      <<"Q">>,
      <<"Q", "S", "T">>,
      <<"D", "A", "Y", "-", "T", "O", "-", "D", "A", "Y">>,
      <<"D", "T", "D">>,
      <<"G", "T", "D">>,
      <<"P", "r", "o", "b", "a", "b", "l", "e">>,
      <<"A", "c", "t", "i", "v", "e">>,
      <<"A", "v", "a", "i", "l", "a", "b", "l", "e">>,
      <<"D", "o", "u", "b", "t", "f", "u", "l", "/", "O", "u", "t">>,
      <<"Q", "u", "e", "s", "t", "i", "o", "n", "a", "b", "l", "e",
        " ", "D", "T", "D">>,
      <<"Q", "u", "e", "s", "t", "i", "o", "n", "a", "b", "l", "e",
        " ", "(", "a", "n", "k", "l", "e", ")">>,
      <<"Q", "u", "e", "s", "t", "i", "o", "n", "a", "b", "l", "e",
        " ", "(", "a", "n", "k", "l", "e", ")", ",", " ", "e", "x", "p",
        "e", "c", "t", "e", "d", " ", "o", "u", "t", " ", "1", "0", " ",
        "d", "a", "y", "s">>>>

\* the description texts of the modelled provider players
DetailTexts ==
    <<<< >>,
      <<"o", "u", "t", " ", "f", "o", "r", " ", "3", " ", "w", "e",
        "e", "k", "s">>,
      <<"e", "x", "p", "e", "c", "t", "e", "d", " ", "o", "u", "t",
        " ", "1", "0", " ", "d", "a", "y", "s">>,
      <<"2", " ", "d", "a", "y", "s">>,
      <<"1", " ", "d", "a", "y">>,
      <<"2", " ", "w", "k", "s">>,
      <<"1", " ", "w", "k">>,
      <<"4", " ", "w", "e", "e", "k", "s">>,
      <<"O", "u", "t", " ", "2", " ", "D", "a", "y", "s">>,
      <<"3", "w", "e", "e", "k", "s">>,
      <<"d", "a", "y", " ", "5">>,
      <<"s", "p", "r", "a", "i", "n", "e", "d", " ", "a", "n", "k",
        "l", "e">>,
      <<"o", "u", "t", " ", "2", "-", "3", " ", "w", "e", "e", "k",
        "s">>,
      <<"5", " ", " ", " ", "d", "a", "y", "s">>,
      <<"1", "0", " ", "w", "e", "e", "k", "e", "n", "d", "s">>,
      <<"Q", "u", "e", "s", "t", "i", "o", "n", "a", "b", "l", "e",
        " ", "(", "a", "n", "k", "l", "e", ")", ",", " ", "e", "x", "p",
        "e", "c", "t", "e", "d", " ", "o", "u", "t", " ", "1", "0", " ",
        "d", "a", "y", "s">>>>

\* the severities a stat line can hold before an estimate is stashed in
\* it: the stats dict is an open dict of floats
StoredSeverities == {-500, 0, 1500}

\* local z-scores of the modelled player: PTS, AST, and the other categories
PlayerZSamples == {<<1200, -800, 333>>, <<-1341, 447, 0>>}

SamplePlayer(z, sev) ==
    [display_name |-> "Doc", fantasy_position |-> <<"P", "G">>,
     fantasy_team_abbrev |-> "TB", nba_team_abbrev |-> "NBA",
     stats |-> [k \in {ZKey(TRADE_CATEGORIES[c]) : c \in DOMAIN TRADE_CATEGORIES}
                       \cup {INJURY_KEY} |->
                   IF k = INJURY_KEY THEN sev
                   ELSE IF k = ZKey("PTS") THEN z[1]
                   ELSE IF k = ZKey("AST") THEN z[2]
                   ELSE z[3]]]

\* the category weights of the market value in this component
InjuryWeights ==
    [cat \in CatSet |-> CASE cat = "PTS" -> 1500 [] cat = "FG%" -> 0 [] OTHER -> ONE]

InjuryInit ==
    /\ status_raw \in Range(StatusTexts)
    /\ detail_raw \in Range(DetailTexts)
    /\ estimate = NotRun
    /\ \E z \in PlayerZSamples, sev \in StoredSeverities : player = SamplePlayer(z, sev)
    /\ discounted = NotRun

\* estimate_injury_severity on the provider's texts, and
\* stats[INJURY_KEY] = estimate_injury_severity(status_raw, detail_raw)
EstimateSeverity ==
    /\ estimate = NotRun
    /\ estimate' = [run |-> TRUE,
                    base |-> InjuryBase(status_raw),
                    duration |-> InjuryDuration(detail_raw),
                    severity |-> estimate_injury_severity(status_raw, detail_raw)]
    /\ player' = [player EXCEPT !.stats[INJURY_KEY] =
                      estimate_injury_severity(status_raw, detail_raw)]
    /\ discounted' = NotRun
    /\ UNCHANGED <<status_raw, detail_raw>>
    /\ UNCHANGED <<trade_vars, fairness_vars, matchup_vars, stream_vars,
                 position_vars, scoring_vars, connect_vars,
                   enhanced_vars>>

\* _player_effect_vector and _market_value on the player as it stands
DiscountPlayer ==
    /\ discounted = NotRun
    /\ discounted' = [run |-> TRUE,
                      severity |-> injury_severity(player),
                      effect |-> player_effect_vector(player),
                      value |-> market_value(player, InjuryWeights)]
    /\ UNCHANGED <<status_raw, detail_raw, estimate, player>>
    /\ UNCHANGED <<trade_vars, fairness_vars, matchup_vars, stream_vars,
                 position_vars, scoring_vars, connect_vars,
                   enhanced_vars>>

InjuryNext == EstimateSeverity \/ DiscountPlayer

----------------------------------------------------------------------------
(* The fairness of two package values.  The values are given in steps of   *)
(* 1 / unit, so that values below the 1e-6 threshold exist.                *)

\* steps of 1e-7
FineUnit == 10 * EpsDen

FairnessValues == {-1000, -850, -30, -20, -10, -1, 0, 1, 9, 10, 11, 20, 21, 30, 850, 1000}

FairnessInit ==
    /\ val_a \in FairnessValues
    /\ val_b \in FairnessValues
    /\ unit \in {ONE, FineUnit}
    /\ fairness = NotRun

\* lines 101-108 of _fairness_score_for_packages on the two values
ComputeFairness ==
    /\ fairness = NotRun
    /\ fairness' = [run |-> TRUE, score |-> FairnessOfValues(val_a, val_b, unit)]
    /\ UNCHANGED <<val_a, val_b, unit>>
    /\ UNCHANGED <<trade_vars, injury_vars, matchup_vars, stream_vars,
                 position_vars, scoring_vars, connect_vars,
                   enhanced_vars>>

FairnessNext == ComputeFairness

----------------------------------------------------------------------------
(* The live matchup and the streaming recommender *)

\* a category missing from a stats dict
Absent == [absent |-> TRUE]

ValueCell(v) == [value |-> NumVal(v), result |-> TextVal]

\* the <<my cell, opponent cell>> pairs of the modelled box scores
MatchupCells ==
    << <<ValueCell(99000), ValueCell(100000)>>,
       <<ValueCell(120000), ValueCell(100000)>>,
       <<ValueCell(102000), ValueCell(100000)>>,
       <<ValueCell(100000), ValueCell(100000)>>,
       <<ValueCell(95000), ValueCell(100000)>>,
       <<ValueCell(90000), ValueCell(100000)>>,
       <<ValueCell(85000), ValueCell(100000)>>,
       <<ValueCell(50000), ValueCell(100000)>>,
       <<ValueCell(105000), ValueCell(100000)>>,
       <<ValueCell(0), ValueCell(0)>>,
       <<ValueCell(0), ValueCell(1)>>,
       <<[value |-> TextVal], ValueCell(100000)>>,
       <<ValueCell(99000), [value |-> NoneVal]>>,
       <<[score |-> NumVal(99000)], ValueCell(100000)>>,
       <<Absent, ValueCell(100000)>>,
       <<ValueCell(487), ValueCell(480)>>,
       <<ValueCell(15000), ValueCell(14000)>>,
       <<ValueCell(14000), ValueCell(15000)>>,
       <<ValueCell(14900), ValueCell(15000)>>,
       <<[result |-> TextVal], ValueCell(100000)>>,
       <<[value |-> NoneVal, score |-> NumVal(99000)], ValueCell(100000)>>,
       <<ValueCell(100000), Absent>> >>

\* the cells a modelled box score can hold for REB and for TOV
RebCells == {1, 2, 15}

TovCells == {1, 3, 9, 17, 22}

\* one side's stats dict: the categories whose cell is not Absent
StatsDict(pts, reb, tov) ==
    [cat \in {c \in {"PTS", "REB", "TOV"} :
                 (CASE c = "PTS" -> pts [] c = "REB" -> reb [] c = "TOV" -> tov)
                     # Absent} |->
        CASE cat = "PTS" -> pts [] cat = "REB" -> reb [] cat = "TOV" -> tov]

BoxScore(home, away, home_stats, away_stats) ==
    [home_abbrev |-> home, away_abbrev |-> away,
     home_stats |-> home_stats, away_stats |-> away_stats]

\* a box score between two other teams
OtherBoxScore ==
    BoxScore("XX", "YY", StatsDict(ValueCell(1000), Absent, Absent),
             StatsDict(ValueCell(2000), Absent, Absent))

League(box_error, box_scores, fa_error, free_agents) ==
    [kind |-> "league", box_error |-> box_error, box_scores |-> box_scores,
     fa_error |-> fa_error, free_agents |-> free_agents]

\* the box scores of a league in which the team "ME" plays at home or away
\* with the cells p, r, t for PTS, REB and TOV
LiveBoxScores(side, p, r, t) ==
    IF side = "home"
    THEN <<BoxScore("ME", "OP",
                    StatsDict(MatchupCells[p][1], MatchupCells[r][1], MatchupCells[t][1]),
                    StatsDict(MatchupCells[p][2], MatchupCells[r][2], MatchupCells[t][2]))>>
    ELSE <<OtherBoxScore,
           BoxScore("OP", "ME",
                    StatsDict(MatchupCells[p][2], MatchupCells[r][2], MatchupCells[t][2]),
                    StatsDict(MatchupCells[p][1], MatchupCells[r][1], MatchupCells[t][1]))>>

\* the leagues without a live matchup of "ME"
DeadLeagues ==
    {NoLeague,
     League(TRUE, << >>, FALSE, << >>),
     League(FALSE, << >>, FALSE, << >>),
     League(FALSE, <<OtherBoxScore>>, FALSE, << >>)}

PuntChoices == {<< >>, <<"PTS">>, <<"REB", "TOV">>}

MyTeam(raw_zscores, punts) ==
    [team_id |-> 1, team_abbrev |-> "ME", raw_zscores |-> raw_zscores,
     punt_categories |-> punts]

StreamIdle ==
    /\ opponent = None
    /\ stream_weights = EmptyDict
    /\ teams_playing = {}
    /\ max_results = 0
    /\ streaming = NotRun

MatchupInit ==
    /\ \/ league \in DeadLeagues
       \/ \E side \in {"home", "away"}, p \in DOMAIN MatchupCells, r \in RebCells,
             t \in TovCells :
             league = League(FALSE, LiveBoxScores(side, p, r, t), FALSE, << >>)
    /\ \E punts \in PuntChoices : my_team = MyTeam(ZVector(-1000, 500), punts)
    /\ matchup = NotRun

\* matchup_need_vector(league, my_team)
ComputeMatchupNeed ==
    /\ matchup = NotRun
    /\ \E r \in {matchup_need_vector(league, my_team)} :
          matchup' = [run |-> TRUE, raw |-> r.raw, vector |-> r.vector]
    /\ UNCHANGED <<league, my_team>>
    /\ UNCHANGED <<trade_vars, injury_vars, fairness_vars, stream_vars,
                 position_vars, scoring_vars, connect_vars,
                   enhanced_vars>>

MatchupNext == ComputeMatchupNeed

\* the most free agents the provider returns in a modelled league
MaxFreeAgents == 3

\* max_results: int = 15
MAX_RESULTS == 15

FreeAgent(name, proTeam, status) ==
    [name |-> name, position |-> <<"S", "G">>, proTeam |-> proTeam,
     injuryStatus |-> status, injuryStatusDescription |-> << >>]

TeamLAL == <<"L", "A", "L">>

TeamBOS == <<"B", "O", "S">>

TeamMIA == <<"M", "I", "A">>

\* the free agents the provider can return, in its order; the stat source
\* has no line for Dee
FreeAgentPool ==
    <<FreeAgent("Ace", TeamLAL, << >>),
      FreeAgent("Bo", TeamBOS, <<"O", "U", "T">>),
      FreeAgent("Cy", TeamLAL, <<"D", "T", "D">>),
      FreeAgent("Dee", TeamMIA, << >>),
      FreeAgent("Eli", TeamMIA, << >>)>>

StreamStatSource ==
    [n \in {"Ace", "Bo", "Cy", "Eli"} |->
        CASE n = "Ace" -> StatLine(4, 1, 1)
          [] n = "Bo" -> StatLine(2, 2, 3)
          [] n = "Cy" -> StatLine(1, 4, 1)
          [] n = "Eli" -> StatLine(3, 3, 2)]

\* the free-agent lists of at most MaxFreeAgents players, in provider order
FreeAgentLists ==
    {PickFrom(FreeAgentPool, SetToSortedSeq(S)) :
        S \in {T \in SUBSET (DOMAIN FreeAgentPool) : Cardinality(T) <= MaxFreeAgents}}

\* the leagues of the streaming page with the free agents fa: "ME" trailing
\* in PTS by 1% with REB won or tied, "ME" behind in TOV only,
\* box_scores() raising, and free_agents() raising
StreamLeagues(fa) ==
    {League(FALSE, LiveBoxScores("home", 1, 2, 3), FALSE, fa),
     League(FALSE, LiveBoxScores("away", 1, 4, 3), FALSE, fa),
     League(FALSE, LiveBoxScores("home", 2, 2, 3), FALSE, fa),
     League(TRUE, << >>, FALSE, fa),
     League(FALSE, <<OtherBoxScore>>, TRUE, fa)}

StreamWeightChoices ==
    {[cat \in CatSet |-> ONE],
     [cat \in CatSet |-> CASE cat = "PTS" -> 0 [] cat = "AST" -> 500 [] OTHER -> ONE],
     [cat \in CatSet |-> 0]}

OpponentChoices ==
    {None, [team_id |-> 2, team_abbrev |-> "OP", raw_zscores |-> ZVector(500, 1500),
            punt_categories |-> << >>]}

\* what the schedule provider does for the date: the scoreboard module is
\* missing, the request raises, or it returns a line score with one row per
\* team and game
ScoreboardOutcomes ==
    {[kind |-> "missing", abbrs |-> << >>],
     [kind |-> "raises", abbrs |-> << >>],
     [kind |-> "ok", abbrs |-> << >>],
     [kind |-> "ok", abbrs |-> <<TeamLAL, TeamLAL>>],
     [kind |-> "ok", abbrs |-> <<TeamLAL, TeamBOS, TeamBOS>>]}

\* _teams_playing_on
teams_playing_on(sb) == IF sb.kind = "ok" THEN Range(sb.abbrs) ELSE {}

ScheduleChoices == {teams_playing_on(sb) : sb \in ScoreboardOutcomes}

StreamInit ==
    /\ \/ league = NoLeague
       \/ \E fa \in FreeAgentLists : league \in StreamLeagues(fa)
    /\ \E punts \in {<< >>, <<"PTS">>} : my_team = MyTeam(ZVector(-1000, 500), punts)
    /\ matchup = NotRun
    /\ opponent \in OpponentChoices
    /\ stream_weights \in StreamWeightChoices
    /\ teams_playing \in ScheduleChoices
    /\ max_results \in {1, MAX_RESULTS}
    /\ streaming = NotRun

\* recommend_streaming_adds on the page's inputs
RecommendStreamingAdds ==
    /\ streaming = NotRun
    /\ \E r \in {recommend_streaming_adds(league, my_team, opponent, stream_weights,
                                          StreamStatSource, teams_playing, max_results)} :
          streaming' = [run |-> TRUE, needs |-> r.needs, entries |-> r.entries,
                        results |-> r.results]
    /\ UNCHANGED <<league, my_team, matchup, opponent, stream_weights, teams_playing,
                   max_results>>
    /\ UNCHANGED <<trade_vars, injury_vars, fairness_vars,
                 position_vars, scoring_vars, connect_vars,
                   enhanced_vars>>

StreamNext == RecommendStreamingAdds

----------------------------------------------------------------------------
(* Position balance.  A team's players carry the position strings of the   *)
(* league provider; position_balance_delta is computed for the players a   *)
(* swap sends out and brings in.                                           *)

\* the longest roster of the modelled team
MaxPosRoster == 3

\* position strings of the provider: none, plain, multi-position with "/",
\* "," and " - ", lower case, and a string with no position in it
PositionStrings ==
    {<< >>,
     <<"P", "G">>,
     <<"C">>,
     <<"P", "G", "/", "S", "G">>,
     <<"S", "F", ",", "P", "F">>,
     <<"c">>,
     <<"/">>,
     <<"G", " ", "-", " ", "F">>}

PosPlayer(pos) == [display_name |-> "P", fantasy_position |-> pos]

\* the rosters of at most n players over the position strings
RECURSIVE PosRosters(_)
PosRosters(n) ==
    IF n = 0 THEN {<< >>}
    ELSE LET shorter == PosRosters(n - 1)
         IN  shorter \cup {Append(r, PosPlayer(pos)) :
                              r \in {x \in shorter : Len(x) = n - 1},
                              pos \in PositionStrings}

\* the packages a swap can bring in
IncomingPackages ==
    {<< >>, <<PosPlayer(<< >>)>>, <<PosPlayer(<<"S", "G">>), PosPlayer(<<"C">>)>>}

\* the packages of at most 2 players a team can send out
OutgoingPackages(team) ==
    {PickFrom(team.players, SetToSortedSeq(S)) :
        S \in {T \in SUBSET (DOMAIN team.players) : Cardinality(T) <= 2}}

PositionInit ==
    /\ \E r \in PosRosters(MaxPosRoster) : pos_team = [team_abbrev |-> "TA", players |-> r]
    /\ balance = NotRun

\* position_balance_delta(team, players_out, players_in)
ComputeBalanceDelta ==
    /\ balance = NotRun
    /\ \E players_out \in OutgoingPackages(pos_team), players_in \in IncomingPackages :
          balance' = [run |-> TRUE,
                      players_out |-> players_out,
                      players_in |-> players_in,
                      delta |-> position_balance_delta(pos_team, players_out, players_in)]
    /\ UNCHANGED pos_team
    /\ UNCHANGED <<trade_vars, injury_vars, fairness_vars, matchup_vars, stream_vars,
                   scoring_vars, connect_vars,
                   enhanced_vars>>

PositionNext == ComputeBalanceDelta

----------------------------------------------------------------------------
(* Scoring.  The session holds the profiles aggregate_team_profiles built  *)
(* and the weights of the sidebar sliders; apply_weights_and_scores writes *)
(* each profile's weighted z-scores, total score, punts and strengths.     *)

\* league z-scores a category can have: strongly and seriously weak (the
\* -0.5 limit itself), slightly weak, the 0.4 limit of a strength, strong
ZChoices == {-1200, -500, -100, 400, 1000}

\* the categories whose z-score varies over ZChoices; the others are fixed
RawZscores(pts, reb, ast, stl, tov) ==
    [cat \in CatSet |->
        CASE cat = "PTS" -> pts
          [] cat = "REB" -> reb
          [] cat = "AST" -> ast
          [] cat = "STL" -> stl
          [] cat = "TOV" -> tov
          [] cat = "BLK" -> 400
          [] cat = "FG%" -> -2000
          [] cat = "FT%" -> 450
          [] cat = "3PM" -> 0]

\* a profile as aggregate_team_profiles leaves it
RawProfile(team_id, raw_zscores) ==
    [team_id |-> team_id,
     team_abbrev |-> "TA",
     players |-> << >>,
     category_totals |-> [cat \in CatSet |-> 0],
     raw_zscores |-> raw_zscores,
     weighted_zscores |-> EmptyDict,
     total_score |-> 0,
     strength_categories |-> << >>,
     punt_categories |-> << >>]

\* slider positions: all at 1.0; FG% and PTS off, TOV at 2.0, AST at 0.5;
\* REB and TOV off; everything off
SliderChoices ==
    {[cat \in CatSet |-> ONE],
     [cat \in CatSet |-> CASE cat \in {"FG%", "PTS"} -> 0 [] cat = "TOV" -> 2000
                           [] cat = "AST" -> 500 [] OTHER -> ONE],
     [cat \in CatSet |-> CASE cat \in {"REB", "TOV"} -> 0 [] OTHER -> ONE],
     [cat \in CatSet |-> 0]}

ScoringInit ==
    /\ \E pts \in ZChoices, reb \in ZChoices, ast \in ZChoices, stl \in ZChoices,
          tov \in ZChoices :
          raw_profiles = <<RawProfile(1, RawZscores(pts, reb, ast, stl, tov))>>
    /\ slider_weights \in SliderChoices
    /\ scored = NotRun

\* apply_weights_and_scores(profiles, category_weights)
apply_weights_and_scores(team_profiles, weights) ==
    [i \in DOMAIN team_profiles |-> ApplyWeightsToProfile(team_profiles[i], weights)]

\* connect_league and the Recalculate Scores button: the profiles scored
\* with the weights of the sliders
ApplyWeightsAndScores ==
    /\ scored = NotRun
    /\ scored' = [run |-> TRUE,
                  profiles |-> apply_weights_and_scores(raw_profiles, slider_weights)]
    /\ UNCHANGED <<raw_profiles, slider_weights>>
    /\ UNCHANGED <<trade_vars, injury_vars, fairness_vars, matchup_vars, stream_vars,
                   position_vars, connect_vars,
                   enhanced_vars>>

ScoringNext == ApplyWeightsAndScores

----------------------------------------------------------------------------
(* The session from start-up to a connected league: the stat provider is   *)
(* loaded once (app.init_session), the league provider is read by the      *)
(* sidebar's "Connect to League", and the trade engines and the streaming  *)
(* recommendation start by writing local z-scores on a pool of players.    *)
(* A call that raises is recorded as [raised |-> TRUE].                    *)

\* a per-game line of the stat provider
ProviderLine(name, pts, ast, tov) ==
    [name |-> name, team |-> "NBA",
     stats |-> [cat \in {"PTS", "AST", "TOV"} |->
                   CASE cat = "PTS" -> pts [] cat = "AST" -> ast [] cat = "TOV" -> tov]]

\* what load_players_via_api gives: it raises, or returns the provider's lines
StatProviders ==
    {[up |-> FALSE, players |-> << >>],
     [up |-> TRUE, players |-> << >>],
     [up |-> TRUE,
      players |-> <<ProviderLine("Doc", 1, 1, 1), ProviderLine("Ace", 2, 4, 1),
                    ProviderLine("Big", 0, 0, 0), ProviderLine("Bo", 4, 2, 3),
                    ProviderLine("Doc", 3, 3, 3), ProviderLine("Cy", 1, 1, 2)>>]}

\* build_nba_universe: a later line replaces an earlier one of the same name
build_nba_universe(provider) ==
    IF ~provider.up THEN [raised |-> TRUE]
    ELSE [raised |-> FALSE,
          value |->
            [n \in {provider.players[i].name : i \in DOMAIN provider.players} |->
                LET last == CHOOSE i \in DOMAIN provider.players :
                                /\ provider.players[i].name = n
                                /\ \A j \in DOMAIN provider.players :
                                       provider.players[j].name = n => j <= i
                IN  provider.players[last].stats]]

\* the second pass of aggregate_team_profiles
TeamZscores(team_profiles) ==
    [i \in DOMAIN team_profiles |->
        [team_profiles[i] EXCEPT !.raw_zscores =
            [cat \in CatSet |->
                LET values == [j \in DOMAIN team_profiles |->
                                  Get(team_profiles[j].category_totals, cat, 0)]
                    z == PopulationZ(values, i)
                IN  IF cat \in NEGATIVE_CATEGORIES THEN -z ELSE z]]]

\* statistics.pstdev raises StatisticsError when it is given no data point
aggregate_team_profiles(lg, nba_players_by_name) ==
    IF lg.teams = << >> THEN [raised |-> TRUE]
    ELSE [raised |-> FALSE,
          value |-> TeamZscores([i \in DOMAIN lg.teams |->
                                    BuildProfile(lg.teams[i], nba_players_by_name)])]

\* a row of the matchup list; a score is NumVal(v) or NoneVal
MatchupRow(bs) ==
    [Matchup |-> <<bs.home_team.team_name, bs.away_team.team_name>>,
     Score |-> IF bs.home_score.kind = "num" /\ bs.away_score.kind = "num"
               THEN <<bs.home_score.v, bs.away_score.v>> ELSE << >>]

get_matchups_from_league(lg) ==
    IF lg.scoreboard_error THEN << >>
    ELSE LET played == SelectSeq(lg.box_scores,
                                 LAMBDA bs : bs.home_team # None /\ bs.away_team # None)
         IN  [k \in DOMAIN played |-> MatchupRow(played[k])]

\* a row of the standings table; the win share is in thousandths, << >> for ""
StandingsRow(idx, t) ==
    LET games == t.wins + t.losses + t.ties
    IN  [Rank |-> idx, Team |-> t.team_name,
         Record |-> IF t.ties = 0 THEN <<t.wins, t.losses>>
                    ELSE <<t.wins, t.losses, t.ties>>,
         WinPct |-> IF games > 0
                    THEN <<SDiv((2 * t.wins + t.ties) * ONE, 2 * games)>> ELSE << >>]

get_standings_from_league(lg) ==
    LET teams_sorted == IF lg.standings_error THEN lg.teams ELSE lg.standings
    IN  [idx \in DOMAIN teams_sorted |-> StandingsRow(idx, teams_sorted[idx])]

\* connect_league; the League constructor raises when the provider is not reached
connect_league(lg, nba_players_by_name, weights) ==
    IF ~lg.reachable THEN [raised |-> TRUE]
    ELSE LET agg == aggregate_team_profiles(lg, nba_players_by_name)
         IN  IF agg.raised THEN [raised |-> TRUE]
             ELSE [raised |-> FALSE,
                   profiles |-> apply_weights_and_scores(agg.value, weights),
                   matchups |-> get_matchups_from_league(lg),
                   standings |-> get_standings_from_league(lg)]

\* the first box score naming the team, as the opponent lookup scans them
OpponentId(box_scores, team_id) ==
    LET hit(bs) == \/ (bs.home_team # None /\ bs.home_team.team_id = team_id)
                   \/ (bs.away_team # None /\ bs.away_team.team_id = team_id)
        other(bs) == IF bs.home_team # None /\ bs.home_team.team_id = team_id
                     THEN bs.away_team ELSE bs.home_team
    IN  IF \E k \in DOMAIN box_scores : hit(box_scores[k])
        THEN LET k == CHOOSE x \in DOMAIN box_scores :
                          /\ hit(box_scores[x])
                          /\ \A y \in 1..(x - 1) : ~hit(box_scores[y])
             IN  IF other(box_scores[k]) = None THEN None
                 ELSE [team_id |-> other(box_scores[k]).team_id]
        ELSE None

get_opponent_profile_for_team(lg, team_profiles, team) ==
    IF lg.scoreboard_error THEN None
    ELSE LET opp_id == OpponentId(lg.box_scores, team.team_id)
         IN  IF opp_id = None THEN None
             ELSE IF \E i \in DOMAIN team_profiles :
                         team_profiles[i].team_id = opp_id.team_id
                  THEN team_profiles[CHOOSE i \in DOMAIN team_profiles :
                          /\ team_profiles[i].team_id = opp_id.team_id
                          /\ \A j \in 1..(i - 1) :
                                 team_profiles[j].team_id # opp_id.team_id]
                  ELSE None

\* a fantasy team as the league provider serves it
EspnTeam(team_id, abbrev, wins, losses, roster) ==
    [team_id |-> team_id, team_name |-> abbrev, team_abbrev |-> abbrev,
     wins |-> wins, losses |-> losses, ties |-> 0, roster |-> roster]

\* "Rook" and "Ghost" have no line at the stat provider
EspnRosters ==
    <<{<< >>,
       <<ProviderPlayer("Ace", <<"P", "G">>, << >>, << >>)>>,
       <<ProviderPlayer("Ace", <<"P", "G">>, << >>, << >>),
         ProviderPlayer("Ghost", <<"C">>, TxtQuestionable, << >>)>>,
       <<ProviderPlayer("Ace", <<"P", "G">>, << >>, << >>),
         ProviderPlayer("Big", <<"C">>, << >>, << >>)>>},
      {<< >>,
       <<ProviderPlayer("Bo", <<"S", "F">>, << >>, << >>)>>,
       <<ProviderPlayer("Bo", <<"S", "F">>, << >>, << >>),
         ProviderPlayer("Doc", <<"P", "G">>, << >>, TxtOut2Days)>>},
      {<<ProviderPlayer("Cy", <<"S", "G">>, << >>, << >>)>>,
       <<ProviderPlayer("Rook", <<"P", "F">>, << >>, << >>)>>}>>

EspnTeams(r1, r2, r3) ==
    <<EspnTeam(1, "AAA", 2, 0, r1), EspnTeam(2, "BBB", 1, 1, r2),
      EspnTeam(3, "CCC", 0, 0, r3)>>

\* the week's box scores: the first two teams meet, the third has a bye
EspnBoxScores(teams) ==
    IF Len(teams) < 2 THEN << >>
    ELSE <<[home_team |-> None, away_team |-> teams[1],
            home_score |-> NoneVal, away_score |-> NoneVal],
           [home_team |-> teams[2], away_team |-> teams[1],
            home_score |-> NumVal(3 * ONE), away_score |-> NoneVal]>>

Reverse(s) == [i \in DOMAIN s |-> s[Len(s) + 1 - i]]

\* the free agents of the league; "Rook" has no line at the stat provider
EspnFreeAgents ==
    <<FreeAgent("Doc", TeamBOS, <<"O", "U", "T">>), FreeAgent("Rook", TeamMIA, << >>),
      FreeAgent("Cy", TeamLAL, << >>)>>

EspnLeague(teams, scoreboard_error, standings_error) ==
    [reachable |-> TRUE, teams |-> teams,
     scoreboard_error |-> scoreboard_error, box_scores |-> EspnBoxScores(teams),
     standings_error |-> standings_error, standings |-> Reverse(teams),
     fa_error |-> FALSE, free_agents |-> EspnFreeAgents]

EspnLeagues ==
    {[reachable |-> FALSE]}
    \cup {EspnLeague(SubSeq(EspnTeams(r1, r2, r3), 1, n), sb, st) :
            r1 \in EspnRosters[1], r2 \in EspnRosters[2], r3 \in EspnRosters[3],
            n \in 0..3, sb \in BOOLEAN, st \in BOOLEAN}

\* init_session's category weights
DefaultWeights == [cat \in CatSet |-> ONE]

ConnectInit ==
    /\ stat_provider \in StatProviders
    /\ espn \in EspnLeagues
    /\ nba_players = NotRun
    /\ connected = NotRun
    /\ local_pool = NotRun

\* app.init_session: the stat universe is loaded on the first run of the page
BuildNbaUniverse ==
    /\ ~nba_players.run
    /\ nba_players' = [run |-> TRUE] @@ build_nba_universe(stat_provider)
    /\ UNCHANGED <<stat_provider, espn, connected, local_pool>>
    /\ UNCHANGED <<trade_vars, injury_vars, fairness_vars, matchup_vars, stream_vars,
                   position_vars, scoring_vars,
                   enhanced_vars>>

\* the sidebar's "Connect to League": an exception is shown, the session kept
ConnectLeague ==
    /\ nba_players.run
    /\ ~nba_players.raised
    /\ ~connected.run
    /\ connected' = [run |-> TRUE]
                    @@ connect_league(espn, nba_players.value, DefaultWeights)
    /\ UNCHANGED <<stat_provider, nba_players, espn, local_pool>>
    /\ UNCHANGED <<trade_vars, injury_vars, fairness_vars, matchup_vars, stream_vars,
                   position_vars, scoring_vars,
                   enhanced_vars>>

\* the first step of a trade analysis between two teams of the league
ComputeLocalPlayerZ(a, b) ==
    /\ connected.run
    /\ ~connected.raised
    /\ ~local_pool.run
    /\ local_pool' =
         [run |-> TRUE, of |-> "trade", a |-> a, b |-> b,
          players |-> compute_local_player_z(connected.profiles[a].players
                                             \o connected.profiles[b].players)]
    /\ UNCHANGED <<stat_provider, nba_players, espn, connected>>
    /\ UNCHANGED <<trade_vars, injury_vars, fairness_vars, matchup_vars, stream_vars,
                   position_vars, scoring_vars,
                   enhanced_vars>>

\* steps 2 and 3 of a streaming recommendation in the connected league: the
\* waiver pool of the free agents, and the local z-scores on it unless it is
\* empty
PoolFreeAgents ==
    /\ connected.run
    /\ ~connected.raised
    /\ ~local_pool.run
    /\ \E waiver_players \in {WaiverPool(espn, nba_players.value)} :
          local_pool' =
             [run |-> TRUE, of |-> "waivers", a |-> 0, b |-> 0,
              players |-> IF waiver_players = << >> THEN << >>
                          ELSE compute_local_player_z(waiver_players)]
    /\ UNCHANGED <<stat_provider, nba_players, espn, connected>>
    /\ UNCHANGED <<trade_vars, injury_vars, fairness_vars, matchup_vars, stream_vars,
                   position_vars, scoring_vars,
                   enhanced_vars>>

\* the teams the trade analyzer offers: those of the loaded profiles
ConnectedTeams ==
    IF connected.run /\ ~connected.raised THEN DOMAIN connected.profiles ELSE {}

ConnectNext ==
    \/ BuildNbaUniverse
    \/ ConnectLeague
    \/ \E a, b \in ConnectedTeams : a # b /\ ComputeLocalPlayerZ(a, b)
    \/ PoolFreeAgents

----------------------------------------------------------------------------
(* The trade analyzer page over a whole session.  The profiles stay in the *)
(* session state, so the players of a team keep the local z-scores an      *)
(* earlier analysis wrote on them; every press of the button runs one of   *)
(* the engines on two teams of the league.  The list the page shows holds  *)
(* the rationale of each suggestion.                                       *)

TxtDoubtful == <<"D", "o", "u", "b", "t", "f", "u", "l">>

Txt2Days == <<"2", " ", "d", "a", "y", "s">>

SessionStatLine(pts, ast) == StatLine(pts, 0, ast)

\* a league of three teams of two players: injuries of severity 0.2, 0.6
\* and 0.8, team 1 strong in assists, teams 2 and 3 strong in points
SessionSmallLeague ==
    [stats |->
        [n \in {"Ace", "Big", "Bo", "Doc", "Cy", "Dee"} |->
            CASE n = "Ace" -> SessionStatLine(2, 1)
              [] n = "Big" -> SessionStatLine(1, 3)
              [] n = "Bo" -> SessionStatLine(0, 4)
              [] n = "Doc" -> SessionStatLine(2, 3)
              [] n = "Cy" -> SessionStatLine(0, 1)
              [] n = "Dee" -> SessionStatLine(1, 4)],
     rosters |->
        << <<ProviderPlayer("Ace", <<"P", "G">>, TxtQuestionable, << >>),
             ProviderPlayer("Big", <<"C">>, << >>, Txt2Days)>>,
           <<ProviderPlayer("Bo", <<"P", "G">>, << >>, << >>),
             ProviderPlayer("Doc", <<"S", "G">>, << >>, Txt2Days)>>,
           <<ProviderPlayer("Cy", <<"S", "G">>, << >>, << >>),
             ProviderPlayer("Dee", <<"C">>, TxtQuestionable, << >>)>> >>,
     zscores |-> <<ZVector(-1000, 1500), ZVector(1500, -1000), ZVector(1500, -1000)>>]

\* a league of two average teams, the first with unbalanced positions:
\* three guards and a center against a guard and a center
SessionUnbalancedLeague ==
    [stats |->
        [n \in {"Ace", "Big", "Bo", "Doc", "Cy", "Dee"} |->
            CASE n = "Ace" -> SessionStatLine(3, 2)
              [] n = "Big" -> SessionStatLine(3, 4)
              [] n = "Bo" -> SessionStatLine(3, 2)
              [] n = "Doc" -> SessionStatLine(4, 4)
              [] n = "Cy" -> SessionStatLine(3, 2)
              [] n = "Dee" -> SessionStatLine(4, 4)],
     rosters |->
        << <<ProviderPlayer("Ace", <<"P", "G">>, << >>, << >>),
             ProviderPlayer("Big", <<"P", "G">>, << >>, << >>),
             ProviderPlayer("Bo", <<"P", "G">>, << >>, << >>),
             ProviderPlayer("Doc", <<"C">>, << >>, << >>)>>,
           <<ProviderPlayer("Cy", <<"S", "G">>, << >>, << >>),
             ProviderPlayer("Dee", <<"C">>, << >>, << >>)>> >>,
     zscores |-> <<ZVector(0, 0), ZVector(0, 0)>>]

\* a league of three teams of one player each
SessionTinyLeague ==
    [stats |->
        [n \in {"Ace", "Bo", "Cy"} |->
            CASE n = "Ace" -> SessionStatLine(4, 1)
              [] n = "Bo" -> SessionStatLine(1, 4)
              [] n = "Cy" -> SessionStatLine(2, 2)],
     rosters |->
        << <<ProviderPlayer("Ace", <<"P", "G">>, << >>, << >>)>>,
           <<ProviderPlayer("Bo", <<"P", "G">>, << >>, << >>)>>,
           <<ProviderPlayer("Cy", <<"P", "G">>, TxtDoubtful, << >>)>> >>,
     zscores |-> <<ZVector(-1000, 1500), ZVector(1500, -1000), ZVector(0, 0)>>]

SessionLeagues == {SessionSmallLeague, SessionUnbalancedLeague, SessionTinyLeague}

SessionWeightChoices ==
    {[cat \in CatSet |-> ONE],
     [cat \in CatSet |-> CASE cat = "FG%" -> 0 [] cat = "PTS" -> 1500 [] OTHER -> ONE]}

\* connect_league: the profiles built from the rosters, with the league
\* z-scores of the teams, after apply_weights_and_scores
SessionProfiles(lg, weights) ==
    [t \in DOMAIN lg.rosters |->
        ApplyWeightsToProfile(
            [BuildProfile([team_id |-> t, team_abbrev |-> "T", roster |-> lg.rosters[t]],
                          lg.stats) EXCEPT !.raw_zscores = lg.zscores[t]], weights)]

SessionInit ==
    /\ \E lg \in SessionLeagues, w \in SessionWeightChoices :
          /\ profiles = SessionProfiles(lg, w)
          /\ category_weights = w
    /\ suggestions = << >>
    /\ considered = << >>
    /\ prefs = << >>
    /\ last_call = NoCall

\* the suggestion as the page gets it: with its rationale, built from the
\* per-category gains the engine computed for the two packages
WithReason(engine, r, s) ==
    LET pack_a == PackOf(r.team_a, s.from_a)
        pack_b == PackOf(r.team_b, s.from_b)
        per_cat_a == IF engine = "basic"
                     THEN score_package_for_team(r.team_a, r.prefs_a, pack_a, pack_b).per_cat_gain
                     ELSE score_package_enhanced(r.team_a, r.prefs_a, pack_a, pack_b).per_cat_gain
        per_cat_b == IF engine = "basic"
                     THEN score_package_for_team(r.team_b, r.prefs_b, pack_b, pack_a).per_cat_gain
                     ELSE score_package_enhanced(r.team_b, r.prefs_b, pack_b, pack_a).per_cat_gain
    IN  [from_a |-> s.from_a, from_b |-> s.from_b, gain_a |-> s.gain_a,
         gain_b |-> s.gain_b, score |-> s.score, fairness |-> s.fairness,
         improve_a |-> top_help(per_cat_a),
         improve_b |-> top_help(per_cat_b),
         ai_reason |-> build_ai_reason(r.team_a, r.team_b, pack_a, pack_b,
                                       per_cat_a, per_cat_b, s.fairness)]

\* the state a press of the button leaves: r is what the engine returned
AfterSessionCall(engine, a, b, r) ==
    /\ profiles' = [profiles EXCEPT ![a] = r.team_a, ![b] = r.team_b]
    /\ suggestions' = [k \in DOMAIN r.suggestions |->
                          WithReason(engine, r, r.suggestions[k])]
    /\ considered' = r.considered
    /\ prefs' = <<r.prefs_a, r.prefs_b>>
    /\ UNCHANGED category_weights

\* Generate Trade Ideas with the basic engine, at any time of the session
SessionGenerateTrades(a, b) ==
    /\ a # b
    /\ \E r \in {generate_trade_suggestions(profiles[a], profiles[b],
                                             category_weights, MAX_TRADES)} :
          AfterSessionCall("basic", a, b, r)
    /\ last_call' = [engine |-> "basic", a |-> a, b |-> b, consider_opponent |-> FALSE]
    /\ UNCHANGED <<injury_vars, fairness_vars, matchup_vars, stream_vars,
                   position_vars, scoring_vars, connect_vars,
                   enhanced_vars>>

\* Generate Trade Ideas with Enhanced Analysis ticked
SessionGenerateEnhancedTrades(a, b, consider_opponent) ==
    /\ a # b
    /\ \E r \in {generate_enhanced_trade_suggestions(profiles[a], profiles[b],
                      category_weights, MAX_TRADES, consider_opponent)} :
          AfterSessionCall("enhanced", a, b, r)
    /\ last_call' = [engine |-> "enhanced", a |-> a, b |-> b,
                     consider_opponent |-> consider_opponent]
    /\ UNCHANGED <<injury_vars, fairness_vars, matchup_vars, stream_vars,
                   position_vars, scoring_vars, connect_vars,
                   enhanced_vars>>

SessionNext ==
    \/ \E a \in DOMAIN profiles, b \in DOMAIN profiles : SessionGenerateTrades(a, b)
    \/ \E a \in DOMAIN profiles, b \in DOMAIN profiles, o \in BOOLEAN :
          a < b /\ SessionGenerateEnhancedTrades(a, b, o)

----------------------------------------------------------------------------
(* The enhanced scoring of one swap for one team: the preference vector    *)
(* _build_enhanced_preference_vector builds for a scored profile, and the  *)
(* per-category gains _score_package_enhanced computes with it for the     *)
(* swap's raw deltas (incoming effect minus outgoing effect).              *)

\* league z-scores around the limits of the tiers: weak, the -0.3 limit and
\* just above it, average, just below the 0.2 limit, the limit and just
\* above it, and clearly positive
EnhZChoices == {-1500, -300, -290, 0, 190, 200, 210, 1500}

\* a team with four categories stronger than any of EnhZChoices
EnhStrongZscores(pts, reb) ==
    [cat \in CatSet |->
        CASE cat = "PTS" -> pts
          [] cat = "REB" -> reb
          [] cat = "AST" -> 2000
          [] cat = "STL" -> 1900
          [] cat = "BLK" -> 1800
          [] cat = "FG%" -> 1700
          [] OTHER -> 0]

\* a team that is average in the other categories
EnhPlainZscores(pts, reb) ==
    [cat \in CatSet |->
        CASE cat = "PTS" -> pts [] cat = "REB" -> reb [] cat = "AST" -> -600
          [] OTHER -> 0]

\* slider positions: all at 1.0; STL off and PTS at 1.5
EnhWeightChoices ==
    {[cat \in CatSet |-> ONE],
     [cat \in CatSet |-> CASE cat = "STL" -> 0 [] cat = "PTS" -> 1500 [] OTHER -> ONE]}

\* the raw deltas of a swap: the guard's categories move by pts, the big
\* man's by reb, and the categories later in category order by rest
EnhDeltaRaw(pts, reb, ast, rest) ==
    [cat \in TradeCatSet |->
        CASE cat = "PTS" -> pts [] cat = "REB" -> reb [] cat = "AST" -> ast
          [] cat = "FT%" -> 0 [] OTHER -> rest] @@ EmptyDict

EnhDeltaChoices ==
    {EnhDeltaRaw(pts, reb, ast, rest) :
        pts \in {-ONE, ONE}, reb \in {-ONE, ONE}, ast \in {-ONE, ONE},
        rest \in {-ONE, ONE}}

\* the branch of the base preference the category takes
EnhancedTier(team, cat, z) ==
    IF cat \in Range(team.strength_categories) /\ z > 0 THEN "strength"
    ELSE IF z > 200 THEN "positive"
    ELSE IF z > -300 THEN "swing"
    ELSE "weak"

EnhancedInit ==
    /\ enh_weights \in EnhWeightChoices
    /\ \E pts \in EnhZChoices, reb \in EnhZChoices :
          enh_team \in {ApplyWeightsToProfile(RawProfile(1, zs), enh_weights) :
                           zs \in {EnhStrongZscores(pts, reb), EnhPlainZscores(pts, reb)}}
    /\ enh_opponent \in {None, RawProfile(2, EnhPlainZscores(300, -1000))}
    /\ enh_delta \in EnhDeltaChoices
    /\ enh_prefs = NotRun
    /\ enh_gain = NotRun

\* prefs = _build_enhanced_preference_vector(team, category_weights, opponent)
BuildEnhancedPreferences ==
    /\ enh_prefs = NotRun
    /\ enh_prefs' =
          [run |-> TRUE,
           tier |-> [cat \in TradeCatSet |->
                        EnhancedTier(enh_team, cat, Get(enh_team.raw_zscores, cat, 0))],
           base |-> [cat \in TradeCatSet |->
                        EnhancedBase(enh_team, cat, Get(enh_team.raw_zscores, cat, 0))],
           prefs |-> build_enhanced_preference_vector(enh_team, enh_weights,
                                                      enh_opponent)]
    /\ UNCHANGED <<enh_team, enh_weights, enh_opponent, enh_delta, enh_gain>>
    /\ UNCHANGED <<trade_vars, injury_vars, fairness_vars, matchup_vars, stream_vars,
                   position_vars, scoring_vars, connect_vars>>

\* the category loop of _score_package_enhanced with those preferences
ScorePackageEnhanced ==
    /\ enh_prefs # NotRun
    /\ enh_gain = NotRun
    /\ enh_gain' =
          [run |-> TRUE,
           per_cat_gain |-> EnhancedCatLoop(enh_team, enh_prefs.prefs, enh_delta,
                                            EmptyDict, 1)]
    /\ UNCHANGED <<enh_team, enh_weights, enh_opponent, enh_delta, enh_prefs>>
    /\ UNCHANGED <<trade_vars, injury_vars, fairness_vars, matchup_vars, stream_vars,
                   position_vars, scoring_vars, connect_vars>>

EnhancedNext == BuildEnhancedPreferences \/ ScorePackageEnhanced

----------------------------------------------------------------------------
(* The sidebar after a league is connected: the sliders are moved and      *)
(* Recalculate Scores re-applies the weights to the session's profiles, in *)
(* place, any number of times.                                             *)

\* the profiles as aggregate_team_profiles built them for the league lg
RecalcRawProfiles(lg) ==
    [t \in DOMAIN lg.rosters |->
        [BuildProfile([team_id |-> t, team_abbrev |-> "T", roster |-> lg.rosters[t]],
                      lg.stats) EXCEPT !.raw_zscores = lg.zscores[t]]]

\* the sliders that are moved, and the positions they are moved to
RecalcSliders == {"PTS", "AST", "TOV"}

RecalcPositions == {0, 500, ONE}

\* connect_league: the profiles scored with the weights of the session
RecalcInit ==
    /\ raw_profiles \in {RecalcRawProfiles(SessionSmallLeague),
                         RecalcRawProfiles(SessionTinyLeague)}
    /\ slider_weights \in {[cat \in CatSet |-> ONE],
                           [cat \in CatSet |-> IF cat = "AST" THEN 0 ELSE ONE]}
    /\ scored = [run |-> TRUE,
                 profiles |-> apply_weights_and_scores(raw_profiles, slider_weights),
                 applied |-> slider_weights]

\* weights[cat] = st.sidebar.slider(...)
MoveSlider(cat, w) ==
    /\ slider_weights[cat] # w
    /\ slider_weights' = [slider_weights EXCEPT ![cat] = w]
    /\ UNCHANGED <<raw_profiles, scored>>
    /\ UNCHANGED <<trade_vars, injury_vars, fairness_vars, matchup_vars, stream_vars,
                   position_vars, connect_vars, enhanced_vars>>

\* Recalculate Scores: apply_weights_and_scores(profiles, weights) on the
\* profiles of the session
RecalculateScores ==
    /\ scored.run
    /\ scored.profiles # << >>
    /\ scored' = [run |-> TRUE,
                  profiles |-> apply_weights_and_scores(scored.profiles, slider_weights),
                  applied |-> slider_weights]
    /\ UNCHANGED <<raw_profiles, slider_weights>>
    /\ UNCHANGED <<trade_vars, injury_vars, fairness_vars, matchup_vars, stream_vars,
                   position_vars, connect_vars, enhanced_vars>>

RecalcNext ==
    \/ \E cat \in RecalcSliders, w \in RecalcPositions : MoveSlider(cat, w)
    \/ RecalculateScores

----------------------------------------------------------------------------
(* The specifications: one per component, the other components idle *)

TradeIdle ==
    /\ profiles = << >>
    /\ category_weights = EmptyDict
    /\ suggestions = << >>
    /\ considered = << >>
    /\ prefs = << >>
    /\ last_call = NoCall

InjuryIdle ==
    /\ status_raw = << >>
    /\ detail_raw = << >>
    /\ estimate = NotRun
    /\ player = None
    /\ discounted = NotRun

FairnessIdle ==
    /\ val_a = 0
    /\ val_b = 0
    /\ unit = ONE
    /\ fairness = NotRun

MatchupIdle ==
    /\ league = NoLeague
    /\ my_team = None
    /\ matchup = NotRun

PositionIdle ==
    /\ pos_team = None
    /\ balance = NotRun

ScoringIdle ==
    /\ raw_profiles = << >>
    /\ slider_weights = EmptyDict
    /\ scored = NotRun

ConnectIdle ==
    /\ stat_provider = None
    /\ nba_players = NotRun
    /\ espn = None
    /\ connected = NotRun
    /\ local_pool = NotRun

EnhancedIdle ==
    /\ enh_team = None
    /\ enh_weights = EmptyDict
    /\ enh_opponent = None
    /\ enh_delta = EmptyDict
    /\ enh_prefs = NotRun
    /\ enh_gain = NotRun

TradeStart ==
    /\ TradeInit
    /\ InjuryIdle
    /\ FairnessIdle
    /\ MatchupIdle
    /\ StreamIdle
    /\ PositionIdle
    /\ ScoringIdle
    /\ ConnectIdle
    /\ EnhancedIdle

InjuryStart ==
    /\ InjuryInit
    /\ TradeIdle
    /\ FairnessIdle
    /\ MatchupIdle
    /\ StreamIdle
    /\ PositionIdle
    /\ ScoringIdle
    /\ ConnectIdle
    /\ EnhancedIdle

FairnessStart ==
    /\ FairnessInit
    /\ TradeIdle
    /\ InjuryIdle
    /\ MatchupIdle
    /\ StreamIdle
    /\ PositionIdle
    /\ ScoringIdle
    /\ ConnectIdle
    /\ EnhancedIdle

MatchupStart ==
    /\ MatchupInit
    /\ TradeIdle
    /\ InjuryIdle
    /\ FairnessIdle
    /\ StreamIdle
    /\ PositionIdle
    /\ ScoringIdle
    /\ ConnectIdle
    /\ EnhancedIdle

StreamStart ==
    /\ StreamInit
    /\ TradeIdle
    /\ InjuryIdle
    /\ FairnessIdle
    /\ PositionIdle
    /\ ScoringIdle
    /\ ConnectIdle
    /\ EnhancedIdle

PositionStart ==
    /\ PositionInit
    /\ TradeIdle
    /\ InjuryIdle
    /\ FairnessIdle
    /\ MatchupIdle
    /\ StreamIdle
    /\ ScoringIdle
    /\ ConnectIdle
    /\ EnhancedIdle

ScoringStart ==
    /\ ScoringInit
    /\ TradeIdle
    /\ InjuryIdle
    /\ FairnessIdle
    /\ MatchupIdle
    /\ StreamIdle
    /\ PositionIdle
    /\ ConnectIdle
    /\ EnhancedIdle

ConnectStart ==
    /\ ConnectInit
    /\ TradeIdle
    /\ InjuryIdle
    /\ FairnessIdle
    /\ MatchupIdle
    /\ StreamIdle
    /\ PositionIdle
    /\ ScoringIdle
    /\ EnhancedIdle

SessionStart ==
    /\ SessionInit
    /\ InjuryIdle
    /\ FairnessIdle
    /\ MatchupIdle
    /\ StreamIdle
    /\ PositionIdle
    /\ ScoringIdle
    /\ ConnectIdle
    /\ EnhancedIdle

EnhancedStart ==
    /\ EnhancedInit
    /\ TradeIdle
    /\ InjuryIdle
    /\ FairnessIdle
    /\ MatchupIdle
    /\ StreamIdle
    /\ PositionIdle
    /\ ScoringIdle
    /\ ConnectIdle

RecalcStart ==
    /\ RecalcInit
    /\ TradeIdle
    /\ InjuryIdle
    /\ FairnessIdle
    /\ MatchupIdle
    /\ StreamIdle
    /\ PositionIdle
    /\ ConnectIdle
    /\ EnhancedIdle

SpecTrade == TradeStart /\ [][TradeNext]_vars

SpecInjury == InjuryStart /\ [][InjuryNext]_vars

SpecFairness == FairnessStart /\ [][FairnessNext]_vars

SpecMatchup == MatchupStart /\ [][MatchupNext]_vars

SpecStream == StreamStart /\ [][StreamNext]_vars

SpecPosition == PositionStart /\ [][PositionNext]_vars

SpecScoring == ScoringStart /\ [][ScoringNext]_vars

SpecConnect == ConnectStart /\ [][ConnectNext]_vars

SpecSession == SessionStart /\ [][SessionNext]_vars

SpecEnhanced == EnhancedStart /\ [][EnhancedNext]_vars

SpecRecalc == RecalcStart /\ [][RecalcNext]_vars

----------------------------------------------------------------------------
(* Injury severity (C9) and the durability discount (C10) *)

IndexIn(texts, t) == CHOOSE i \in DOMAIN texts : texts[i] = t

\* the base severity of each status text by the tier list: OUT, INJ, IL, IR
\* give 1.0, DOUBTFUL 0.8, QUESTIONABLE, QST, Q 0.6, DAY-TO-DAY, DTD, GTD,
\* PROBABLE 0.3, in this priority, found anywhere in the text in any case
C9_BaseByTier ==
    <<0, 1000, 1000, 1000, 1000, 1000, 800, 600, 600, 600,
      300, 300, 300, 300, 0, 1000, 1000, 600, 600, 1000>>

\* min(1, games / 10) of each description text: games = N for the first
\* "N day(s)", 3N for the first "N week(s)" or "N wk(s)", 0 without one
C9_DurationByText ==
    <<0, 900, 1000, 200, 100, 600, 300, 1000, 200, 900, 0, 0, 900, 500, 1000, 1000>>

\* C9: estimate_injury_severity(status, detail) is min(1, max(base,
\* duration)), with base from the first matching status tier and duration
\* from the day or week count of the detail text; it lies in [0, 1], is 0
\* for empty status and detail, 1.0 for status "OUT", and at least 0.9 for
\* the detail "out for 3 weeks" with an empty status.
C9_SeverityIsMaxOfBaseAndDuration ==
    estimate.run =>
        /\ estimate.base = C9_BaseByTier[IndexIn(StatusTexts, status_raw)]
        /\ estimate.duration = C9_DurationByText[IndexIn(DetailTexts, detail_raw)]
        /\ estimate.severity = Min(ONE, Max(estimate.base, estimate.duration))
        /\ estimate.severity >= 0 /\ estimate.severity <= ONE
        /\ player.stats[INJURY_KEY] = estimate.severity
        /\ (status_raw = << >> /\ detail_raw = << >> => estimate.severity = 0)
        /\ (status_raw = <<"O", "U", "T">> => estimate.severity = ONE)
        /\ (status_raw = << >> /\ detail_raw = DetailTexts[2] => estimate.severity >= 900)

\* an estimate has run on an empty status and the detail "out for 3 weeks"
C9_Witness ==
    /\ estimate.run
    /\ status_raw = << >>
    /\ detail_raw = DetailTexts[2]
    /\ estimate.severity = 900

\* the durability of a severity, in thousandths: 1.0 - 0.7 * clamp(sev, 0, 1)
C10_Factor(sev) == ONE - (7 * Min(ONE, Max(0, sev))) \div 10

\* the provider's texts carry 'Questionable (ankle), expected out 10 days':
\* the status is the label and the description holds the duration, or the
\* description holds the whole text
C10_ScenarioTexts ==
    /\ status_raw \in {StatusTexts[8], StatusTexts[19]}
    /\ detail_raw \in {DetailTexts[3], DetailTexts[16]}

----------------------------------------------------------------------------
(* The fairness score (C3) *)

----------------------------------------------------------------------------
(* The trade engines (C1, C2, C4, C7) *)

\* the display names of the players of team t at the roster positions idx
NamesAt(t, idx) == {profiles[t].players[idx[k]].display_name : k \in DOMAIN idx}

\* total_fit <= 0.05 in generate_trade_suggestions, <= 0.08 in
\* generate_enhanced_trade_suggestions
SignificanceThreshold == IF last_call.engine = "basic" THEN 50 ELSE 80

\* the suggestion list holds the packages of the loop iteration c
Surfaced(c) ==
    \E k \in DOMAIN suggestions :
        /\ suggestions[k].from_a = c.from_a
        /\ suggestions[k].from_b = c.from_b

\* C1: every suggestion either engine returns has fairness >= 0.85,
\* gain_a > 0 and gain_b > 0.
C1_SuggestionsFairAndMutual ==
    \A k \in DOMAIN suggestions :
        /\ suggestions[k].fairness.num * 100 >= 85 * suggestions[k].fairness.den
        /\ suggestions[k].gain_a > 0
        /\ suggestions[k].gain_b > 0

\* the basic engine returned a suggestion whose fairness is below 1.0
C1_Witness ==
    /\ last_call.engine = "basic"
    /\ \E k \in DOMAIN suggestions :
          suggestions[k].fairness.num < suggestions[k].fairness.den

\* the loop iteration c passes the fit, significance and fairness filters
PassesFitSignificanceFairness(c) ==
    /\ c.gain_a > 0
    /\ c.gain_b > 0
    /\ c.gain_a + c.gain_b > SignificanceThreshold
    /\ c.fairness.num * 100 >= 85 * c.fairness.den

\* C2: no suggestion has the same set of display names in from_a and
\* from_b; when every package pair that passes the fit, significance and
\* fairness filters is a same-name-set swap, the list returned is empty.
C2_NoSameNameSwap ==
    /\ \A k \in DOMAIN suggestions :
          NamesAt(last_call.a, suggestions[k].from_a)
              # NamesAt(last_call.b, suggestions[k].from_b)
    /\ (\A i \in DOMAIN considered :
           PassesFitSignificanceFairness(considered[i]) =>
               NamesAt(last_call.a, considered[i].from_a)
                   = NamesAt(last_call.b, considered[i].from_b))
          => suggestions = << >>

\* an engine returned the empty list although a same-name swap passed the
\* fit, significance and fairness filters
C2_Witness ==
    /\ last_call # NoCall
    /\ suggestions = << >>
    /\ \E i \in DOMAIN considered :
          /\ PassesFitSignificanceFairness(considered[i])
          /\ NamesAt(last_call.a, considered[i].from_a)
                 = NamesAt(last_call.b, considered[i].from_b)

\* C7: the preference vector either builder returns has a non-negative
\* entry for each of the 8 trade categories and sums to 1; with every
\* category weight 0 it is 1/8 per category; no denominator is 0.
C7_PreferencesNormalised ==
    \A t \in DOMAIN prefs :
        /\ DOMAIN prefs[t].num = TradeCatSet
        /\ Cardinality(DOMAIN prefs[t].num) = 8
        /\ prefs[t].den > 0
        /\ \A cat \in TradeCatSet : prefs[t].num[cat] >= 0
        /\ TradeTotal(prefs[t].num) = prefs[t].den
        /\ (\A cat \in CatSet : category_weights[cat] = 0) =>
              \A cat \in TradeCatSet : 8 * prefs[t].num[cat] = prefs[t].den

\* the enhanced builder fell back to the uniform vector for both teams
C7_Witness ==
    /\ last_call.engine = "enhanced"
    /\ \A cat \in CatSet : category_weights[cat] = 0
    /\ Len(prefs) = 2
    /\ \A cat \in TradeCatSet : 8 * prefs[1].num[cat] = prefs[1].den

\* the loop iteration c is a 1-for-1 swap that is positive for both teams
\* and whose two market values are positive and within 15% of each other
MutualSwapWithin15(c) ==
    /\ Len(c.from_a) = 1
    /\ Len(c.from_b) = 1
    /\ c.gain_a > 0
    /\ c.gain_b > 0
    /\ c.value_a > 0
    /\ c.value_b > 0
    /\ 100 * Abs(c.value_a - c.value_b) <= 15 * c.value_a
    /\ 100 * Abs(c.value_a - c.value_b) <= 15 * c.value_b

\* the values of the loop iteration c are the market values of its two
\* players, and its fairness is the fairness of these values
ValuesOfSwap(c) ==
    /\ c.value_a = market_value(profiles[last_call.a].players[c.from_a[1]],
                                category_weights)
    /\ c.value_b = market_value(profiles[last_call.b].players[c.from_b[1]],
                                category_weights)
    /\ c.fairness.num * (c.value_a + c.value_b) =
           c.fairness.den * (c.value_a + c.value_b - 2 * Abs(c.value_a - c.value_b))

\* C4 as stated: a 1-for-1 swap that is positive for both teams and whose
\* market values are positive and within 15% of each other has fairness
\* >= 0.85 and is surfaced as a suggestion.
C4_MutualSwapSurfaced ==
    \A i \in DOMAIN considered :
        MutualSwapWithin15(considered[i]) =>
            /\ considered[i].fairness.num * 100 >= 85 * considered[i].fairness.den
            /\ Surfaced(considered[i])

\* C4, amended: such a swap has fairness >= 0.85, so the fairness filter
\* does not reject it; it is surfaced when, besides, the two players'
\* display names differ and the total fit gain exceeds the significance
\* threshold, unless max_trades suggestions of at least its score fill the
\* list.
C4_MutualSwapPassesFairness ==
    \A i \in DOMAIN considered :
        MutualSwapWithin15(considered[i]) =>
            /\ ValuesOfSwap(considered[i])
            /\ considered[i].fairness.num * 100 >= 85 * considered[i].fairness.den
            /\ (/\ NamesAt(last_call.a, considered[i].from_a)
                       # NamesAt(last_call.b, considered[i].from_b)
                /\ considered[i].gain_a + considered[i].gain_b > SignificanceThreshold)
                  => \/ Surfaced(considered[i])
                     \/ /\ Len(suggestions) = MAX_TRADES
                        /\ \A k \in DOMAIN suggestions :
                              suggestions[k].score >= considered[i].score

\* the basic engine surfaced a mutual 1-for-1 swap of differently named
\* players whose market values differ by at most 15%
C4_Witness ==
    /\ last_call.engine = "basic"
    /\ \E i \in DOMAIN considered :
          /\ MutualSwapWithin15(considered[i])
          /\ considered[i].value_a # considered[i].value_b
          /\ Surfaced(considered[i])

----------------------------------------------------------------------------
(* The live matchup need vector (C5, C6) *)

\* the box score of "ME" in a league with a live matchup: the last one
MyBoxScore == league.box_scores[Len(league.box_scores)]

HasLiveMatchup ==
    /\ league # NoLeague
    /\ ~league.box_error
    /\ league.box_scores # << >>
    /\ "ME" \in {MyBoxScore.home_abbrev, MyBoxScore.away_abbrev}

\* the <<my cell, opponent cell>> pair of a category in the live box score
CellPair(cat) ==
    IF MyBoxScore.home_abbrev = "ME"
    THEN <<Get(MyBoxScore.home_stats, cat, Absent), Get(MyBoxScore.away_stats, cat, Absent)>>
    ELSE <<Get(MyBoxScore.away_stats, cat, Absent), Get(MyBoxScore.home_stats, cat, Absent)>>

\* C5: when the total of the needs after the punt multiplier is positive,
\* the values returned by matchup_need_vector are each in [0, 1] and sum to
\* 1; otherwise (league missing, no live matchup, every need zero) the
\* vector returned is 0 for every category.
C5_NeedVectorNormalised ==
    matchup.run =>
        /\ DOMAIN matchup.vector.num = CatSet
        /\ matchup.vector.den > 0
        /\ IF NeedTotal(matchup.raw) > 0
           THEN /\ \A cat \in CatSet :
                      /\ matchup.vector.num[cat] >= 0
                      /\ matchup.vector.num[cat] <= matchup.vector.den
                      /\ matchup.vector.num[cat] * NeedTotal(matchup.raw)
                             = matchup.raw[cat] * matchup.vector.den
                /\ NeedTotal(matchup.vector.num) = matchup.vector.den
           ELSE \A cat \in CatSet : matchup.vector.num[cat] = 0
        /\ ~HasLiveMatchup => \A cat \in CatSet : matchup.vector.num[cat] = 0

\* the need vector of a live matchup with more than one needed category
\* was normalised by its total
C5_Witness ==
    /\ matchup.run
    /\ NeedTotal(matchup.raw) > ONE
    /\ matchup.vector.den = NeedTotal(matchup.raw)
    /\ matchup.vector.num["PTS"] > 0
    /\ matchup.vector.num["PTS"] < matchup.vector.den

\* the need of each pair of MatchupCells by the policy table, in
\* thousandths, for a category other than TOV and for TOV: with margin and
\* rel = |margin| / max(|opp|, 1e-3), ahead and rel < 0.05 gives
\* 0.4 * (1 - rel / 0.05), ahead and rel >= 0.05 gives 0, behind gives 1.0,
\* 0.6 or 0.2 for rel < 0.05, < 0.15 and >= 0.15; a value that is missing,
\* None or unparseable gives 0
C6_NeedByPolicy ==
    << <<1000, 320>>, <<0, 200>>, <<240, 1000>>, <<400, 400>>, <<600, 0>>,
       <<600, 0>>, <<200, 0>>, <<200, 0>>, <<0, 600>>, <<400, 400>>,
       <<200, 0>>, <<0, 0>>, <<0, 0>>, <<1000, 320>>, <<0, 0>>,
       <<283, 1000>>, <<0, 600>>, <<600, 0>>, <<1000, 346>>, <<0, 0>>,
       <<0, 0>>, <<0, 0>> >>

C6_Expected(cat) ==
    IF CellPair(cat) = <<Absent, Absent>> THEN 0
    ELSE C6_NeedByPolicy[IndexIn(MatchupCells, CellPair(cat))][IF cat = "TOV" THEN 2 ELSE 1]

\* C6: the need of a category before normalisation follows the policy
\* table on the margin and the relative margin, times 0.1 for a punted
\* category, and is 0 for a category with a missing or unparseable value;
\* losing by 1% gives 1.0 and winning by 20% gives 0.0.
C6_NeedFollowsPolicy ==
    matchup.run /\ HasLiveMatchup =>
        \A cat \in CatSet :
            matchup.raw[cat] =
                IF cat \in Range(my_team.punt_categories)
                THEN C6_Expected(cat) \div 10
                ELSE C6_Expected(cat)

\* the need was computed for a team losing PTS 99 to 100 and winning REB
\* 120 to 100, with nothing punted
C6_Witness ==
    /\ matchup.run
    /\ HasLiveMatchup
    /\ my_team.punt_categories = << >>
    /\ CellPair("PTS") = MatchupCells[1]
    /\ CellPair("REB") = MatchupCells[2]
    /\ matchup.raw["PTS"] = ONE
    /\ matchup.raw["REB"] = 0

----------------------------------------------------------------------------
(* The streaming recommender (C8) *)

\* the returned list holds the player of the loop iteration e
Recommended(e) ==
    \E k \in DOMAIN streaming.results : streaming.results[k].player = e.player

\* C8: every entry recommend_streaming_adds returns has score > 0 and a
\* category with a strictly positive contribution, and with a non-empty
\* schedule set its player's NBA team is in the set; with an empty schedule
\* set no player is left out because of the schedule.
C8_StreamingEntriesHelpAndPlay ==
    streaming.run =>
        /\ \A k \in DOMAIN streaming.results :
              /\ streaming.results[k].score > 0
              /\ streaming.results[k].cats_helped # << >>
              /\ \E i \in DOMAIN streaming.entries :
                    /\ streaming.entries[i].player = streaming.results[k].player
                    /\ streaming.entries[i].score = streaming.results[k].score
                    /\ \E cat \in TradeCatSet :
                          streaming.entries[i].contrib_by_cat[cat] > 0
              /\ teams_playing # {} =>
                    streaming.results[k].player.nba_team_abbrev \in teams_playing
        /\ teams_playing = {} =>
              \A i \in DOMAIN streaming.entries :
                  streaming.entries[i].score > 0 =>
                      \/ Recommended(streaming.entries[i])
                      \/ /\ Len(streaming.results) = max_results
                         /\ \A k \in DOMAIN streaming.results :
                               streaming.results[k].score >= streaming.entries[i].score

\* with only LAL on the schedule a LAL player was recommended and a
\* player of another team who would help was left out
C8_Witness ==
    /\ streaming.run
    /\ teams_playing = {TeamLAL}
    /\ streaming.results # << >>
    /\ \E i \in DOMAIN streaming.entries :
          /\ streaming.entries[i].score > 0
          /\ streaming.entries[i].player.nba_team_abbrev # TeamLAL
          /\ ~Recommended(streaming.entries[i])

----------------------------------------------------------------------------
(* Position balance of the empty swap (C11) *)

\* the spread of a roster: dist(before) times the number of positions
SpreadOf(team) ==
    PositionDistTimes(position_counts(team.players), position_counts(team.players),
                      Len(team.players),
                      Max(1, Cardinality(DOMAIN position_counts(team.players))))

\* C11: position_balance_delta(team, [], []) is 0.0 for every roster: the
\* empty roster, and rosters whose players have empty position strings or
\* strings with no position in them
C11_EmptySwapKeepsBalance ==
    (balance.run /\ balance.players_out = << >> /\ balance.players_in = << >>)
        => balance.delta = 0

\* the empty swap was computed on an unbalanced roster that holds a player
\* with an empty position string and one whose string has no position
C11_Witness ==
    /\ balance.run
    /\ balance.players_out = << >>
    /\ balance.players_in = << >>
    /\ balance.delta = 0
    /\ SpreadOf(pos_team) > 0
    /\ \E i \in DOMAIN pos_team.players : pos_team.players[i].fantasy_position = << >>
    /\ \E i \in DOMAIN pos_team.players : pos_team.players[i].fantasy_position = <<"/">>

----------------------------------------------------------------------------
(* Weights, punts and strengths (C12, C13, C14) *)

\* the weight of a category on the sliders
SliderWeight(cat) == Get(slider_weights, cat, ONE)

\* the categories with weight > 0, in declaration order
WeightedCats == SelectSeq(CATEGORIES, LAMBDA cat : SliderWeight(cat) > 0)

\* base_z * weight, with the turnover factor 0.25 on TOV
ExpectedWeightedZ(tp, cat) ==
    IF cat = "TOV" THEN SDiv(tp.raw_zscores[cat] * SliderWeight(cat) * 250, ONE * ONE)
    ELSE SDiv(tp.raw_zscores[cat] * SliderWeight(cat), ONE)

\* C12: after apply_weights_and_scores, every category whose weight is 0 is
\* in punt_categories and has no entry in weighted_zscores, and total_score
\* is the sum of the weighted z-scores of the categories with weight > 0
\* only, whatever the raw z-score of the zero-weighted category
C12_ZeroWeightIsPuntedAndUnscored ==
    scored.run =>
        \A i \in DOMAIN scored.profiles :
            LET tp == scored.profiles[i]
            IN  /\ \A cat \in CatSet :
                      SliderWeight(cat) = 0 =>
                          /\ cat \in Range(tp.punt_categories)
                          /\ cat \notin DOMAIN tp.weighted_zscores
                /\ tp.total_score =
                      SumSeq([k \in DOMAIN WeightedCats |->
                                 tp.weighted_zscores[WeightedCats[k]]])
                /\ \A k \in DOMAIN WeightedCats :
                      tp.weighted_zscores[WeightedCats[k]] =
                          ExpectedWeightedZ(tp, WeightedCats[k])

\* the profiles were scored with two categories switched off, one with a
\* positive and one with a negative raw z-score, and the rest still count
C12_Witness ==
    /\ scored.run
    /\ \E c1 \in CatSet, c2 \in CatSet :
          /\ SliderWeight(c1) = 0 /\ scored.profiles[1].raw_zscores[c1] > 0
          /\ SliderWeight(c2) = 0 /\ scored.profiles[1].raw_zscores[c2] < 0
    /\ scored.profiles[1].total_score # 0
    /\ Len(WeightedCats) > 0

\* the categories switched off on the sliders
ZeroWeightCats == {cat \in CatSet : SliderWeight(cat) = 0}

\* the weighted categories of a profile that are seriously weak, and weak
SeriouslyWeak(tp) == {cat \in Range(WeightedCats) : tp.raw_zscores[cat] <= -500}

Weak(tp) == {cat \in Range(WeightedCats) : tp.raw_zscores[cat] < 0}

\* S holds n categories of From, none of them less negative than one left out
MostNegative(S, From, n, tp) ==
    /\ S \subseteq From
    /\ Cardinality(S) = n
    /\ \A a \in S, b \in From \ S : tp.raw_zscores[a] <= tp.raw_zscores[b]

\* a sequence of categories in declaration order, none twice
InDeclarationOrder(cats) == cats = SelectSeq(CATEGORIES, LAMBDA cat : cat \in Range(cats))

\* C13: after apply_weights_and_scores the auto punts, taken among the
\* categories with weight > 0, are the up to 3 most negative ones with
\* z <= -0.5 if there is one, else the single most negative one if any z is
\* below 0, else none; punt_categories is their union with the weight-0
\* categories, in declaration order
C13_PuntsAreManualPlusWorst ==
    scored.run =>
        \A i \in DOMAIN scored.profiles :
            LET tp == scored.profiles[i]
                auto == Range(tp.punt_categories) \ ZeroWeightCats
            IN  /\ ZeroWeightCats \subseteq Range(tp.punt_categories)
                /\ InDeclarationOrder(tp.punt_categories)
                /\ IF SeriouslyWeak(tp) # {}
                   THEN MostNegative(auto, SeriouslyWeak(tp),
                                     Min(3, Cardinality(SeriouslyWeak(tp))), tp)
                   ELSE IF Weak(tp) # {}
                   THEN MostNegative(auto, Weak(tp), 1, tp)
                   ELSE auto = {}

\* a profile with more than 3 seriously weak weighted categories was scored
\* while the sliders had a category switched off
C13_Witness ==
    /\ scored.run
    /\ ZeroWeightCats # {}
    /\ Cardinality(SeriouslyWeak(scored.profiles[1])) > 3
    /\ Len(scored.profiles[1].punt_categories) = 3 + Cardinality(ZeroWeightCats)

\* the weighted, non-punted categories of a profile with z >= 0.4
Eligible(tp) ==
    {cat \in Range(WeightedCats) :
        cat \notin Range(tp.punt_categories) /\ tp.raw_zscores[cat] >= 400}

\* C14: after apply_weights_and_scores, strength_categories has at most 4
\* entries, shares none with punt_categories, holds only categories with
\* weight > 0 and raw z >= 0.4, is ordered by z descending, and leaves out no
\* eligible category with a strictly higher z than one it holds
C14_StrengthsAreTopFour ==
    scored.run =>
        \A i \in DOMAIN scored.profiles :
            LET tp == scored.profiles[i]
                st == tp.strength_categories
            IN  /\ Len(st) <= 4
                /\ Len(st) = Min(4, Cardinality(Eligible(tp)))
                /\ Cardinality(Range(st)) = Len(st)
                /\ Range(st) \cap Range(tp.punt_categories) = {}
                /\ \A cat \in Range(st) :
                      SliderWeight(cat) > 0 /\ tp.raw_zscores[cat] >= 400
                /\ \A j \in 1..(Len(st) - 1) :
                      tp.raw_zscores[st[j]] >= tp.raw_zscores[st[j + 1]]
                /\ \A a \in Eligible(tp) \ Range(st), b \in Range(st) :
                      tp.raw_zscores[a] <= tp.raw_zscores[b]

\* a profile with more than 4 eligible categories was scored, so that one
\* of them was left out
C14_Witness ==
    /\ scored.run
    /\ Cardinality(Eligible(scored.profiles[1])) > 4
    /\ Len(scored.profiles[1].strength_categories) = 4
    /\ scored.profiles[1].punt_categories # << >>

----------------------------------------------------------------------------
(* C15: z-scores over a population *)

\* the largest magnitude in a list of z-scores
MaxAbsOf(zs) == IF zs = << >> THEN 0
                ELSE CHOOSE m \in {Abs(zs[i]) : i \in DOMAIN zs} :
                         \A i \in DOMAIN zs : Abs(zs[i]) <= m

\* n times the deviation of vals[i] from the mean of vals
DevTimesN(vals, i) == Len(vals) * vals[i] - SumSeq(vals)

\* zs are the z-scores of vals, each cut to a whole number of thousandths:
\* the sum is 0 and the mean square is 1 within what the cut can lose, a
\* larger value has the larger z-score, and the z-scores are in the
\* proportion of the deviations from the mean
Standardised(vals, zs) ==
    IF \A i, j \in DOMAIN vals : vals[i] = vals[j]
    THEN \A i \in DOMAIN zs : zs[i] = 0
    ELSE /\ Abs(SumSeq(zs)) <= Len(zs)
         /\ Abs(SumSquares(zs) - Len(zs) * ONE * ONE)
                <= Len(zs) * (2 * MaxAbsOf(zs) + 2)
         /\ \A i, j \in DOMAIN vals :
                /\ vals[i] < vals[j] => zs[i] < zs[j]
                /\ Abs(zs[i] * DevTimesN(vals, j) - zs[j] * DevTimesN(vals, i))
                       <= Abs(DevTimesN(vals, i)) + Abs(DevTimesN(vals, j))

\* the category totals of the connected league's teams, and their z-scores
\* with the inversion of a lower-is-better category undone
TeamTotals(cat) ==
    [i \in DOMAIN connected.profiles |-> connected.profiles[i].category_totals[cat]]

TeamZUninverted(cat) ==
    [i \in DOMAIN connected.profiles |->
        IF cat = "TOV" THEN -connected.profiles[i].raw_zscores[cat]
        ELSE connected.profiles[i].raw_zscores[cat]]

\* one raw category over the pooled players, and the local z-scores written
PooledVals(cat) == [i \in DOMAIN local_pool.players |-> local_pool.players[i].stats[cat]]

PooledZ(cat) ==
    [i \in DOMAIN local_pool.players |-> local_pool.players[i].stats[ZKey(cat)]]

\* C15: in every category the team z-scores of aggregate_team_profiles and the
\* local player z-scores of _compute_local_player_z are (value - mean) / std
\* over their population: mean 0 and population deviation 1 when the
\* population has two distinct values, all 0 when every value is equal; the
\* team z-score of TOV is the negation of that value.
C15_ZscoresStandardised ==
    /\ (connected.run /\ ~connected.raised) =>
           \A cat \in CatSet : Standardised(TeamTotals(cat), TeamZUninverted(cat))
    /\ local_pool.run =>
           \A cat \in TradeCatSet : Standardised(PooledVals(cat), PooledZ(cat))

\* three teams whose turnover totals differ and whose rebound totals are all
\* equal, and a pool of three players with different points
C15_Witness ==
    /\ connected.run
    /\ ~connected.raised
    /\ Len(connected.profiles) = 3
    /\ Cardinality(Range(TeamTotals("TOV"))) = 3
    /\ Cardinality(Range(TeamTotals("REB"))) = 1
    /\ \E i \in DOMAIN connected.profiles : connected.profiles[i].raw_zscores["TOV"] < -ONE
    /\ local_pool.run
    /\ Len(local_pool.players) >= 3
    /\ Cardinality(Range(PooledVals("PTS"))) >= 3

----------------------------------------------------------------------------
(* C16: the returned list is the top of all qualifying package pairs *)

\* the packages of 1 or 2 roster positions of a team of n players
PackagesOf(n) ==
    {<<i>> : i \in 1..n} \cup {p \in (1..n) \X (1..n) : p[1] < p[2]}

\* the loop iterations whose pair is not a same-name-set swap and passes the
\* fit, significance and fairness filters
Qualifying ==
    {i \in DOMAIN considered :
        /\ NamesAt(last_call.a, considered[i].from_a)
               # NamesAt(last_call.b, considered[i].from_b)
        /\ PassesFitSignificanceFairness(considered[i])}

\* gain_a, gain_b and score of a suggestion are those of the iteration i
SuggestionOf(s, i) ==
    /\ s.from_a = considered[i].from_a
    /\ s.from_b = considered[i].from_b
    /\ s.gain_a = considered[i].gain_a
    /\ s.gain_b = considered[i].gain_b
    /\ s.score = SDiv((s.gain_a + s.gain_b) * s.fairness.num, s.fairness.den)

\* C16: the list either engine returns is the first max_trades, in
\* non-increasing order of (gain_a + gain_b) * fairness, of all pairs of
\* packages of 1 or 2 players per team that are not same-name-set swaps and
\* pass the gain, significance and fairness filters; no qualifying pair
\* scoring strictly higher than a returned one is left out, and no package
\* has more than 2 players.
C16_TopOfAllQualifyingPairs ==
    last_call # NoCall =>
        /\ {<<considered[i].from_a, considered[i].from_b>> : i \in DOMAIN considered}
               = PackagesOf(Len(profiles[last_call.a].players))
                     \X PackagesOf(Len(profiles[last_call.b].players))
        /\ Len(suggestions) = Min(MAX_TRADES, Cardinality(Qualifying))
        /\ \A k \in DOMAIN suggestions :
              /\ \E i \in Qualifying : SuggestionOf(suggestions[k], i)
              /\ Len(suggestions[k].from_a) \in 1..2
              /\ Len(suggestions[k].from_b) \in 1..2
              /\ \A j \in DOMAIN suggestions :
                    /\ k < j => suggestions[k].score >= suggestions[j].score
                    /\ k # j => <<suggestions[k].from_a, suggestions[k].from_b>>
                                    # <<suggestions[j].from_a, suggestions[j].from_b>>
              /\ \A i \in Qualifying :
                    considered[i].score > suggestions[k].score => Surfaced(considered[i])

\* more pairs qualify than are returned, the returned scores are not all
\* equal, and one of the returned packages holds two players
C16_Witness ==
    /\ last_call # NoCall
    /\ Cardinality(Qualifying) > MAX_TRADES
    /\ Len(suggestions) = MAX_TRADES
    /\ suggestions[1].score > suggestions[MAX_TRADES].score
    /\ \E k \in DOMAIN suggestions : Len(suggestions[k].from_a) = 2
    /\ \E i \in Qualifying : ~Surfaced(considered[i])

----------------------------------------------------------------------------
(* C17: empty inputs *)

\* a trade engine called on two teams with empty rosters returned []
C17_TradeOnEmptyRosters ==
    (/\ last_call # NoCall
     /\ profiles[last_call.a].players = << >>
     /\ profiles[last_call.b].players = << >>) => suggestions = << >>

\* recommend_streaming_adds on a league with no free agents returned []
C17_StreamingOnEmptyPool ==
    (/\ streaming.run
     /\ league # NoLeague
     /\ ~league.fa_error
     /\ league.free_agents = << >>) => streaming.results = << >>

\* aggregate_team_profiles on a league with zero teams returned [], so that
\* the connection shows a league with no profiles
C17_AggregateOnNoTeams ==
    (/\ connected.run
     /\ espn.reachable
     /\ espn.teams = << >>) => (~connected.raised /\ connected.profiles = << >>)

\* C17: no core operation raises on empty inputs: aggregate_team_profiles on
\* a league with zero teams returns an empty list, the trade engines on
\* empty rosters return an empty list, and recommend_streaming_adds with an
\* empty free-agent pool returns an empty list.
C17_NoRaiseOnEmptyInputs ==
    /\ C17_AggregateOnNoTeams
    /\ C17_TradeOnEmptyRosters
    /\ C17_StreamingOnEmptyPool

----------------------------------------------------------------------------
(* C18: failures of the providers *)

\* a failed schedule lookup gives the empty set, and with the empty set no
\* free agent who helps is left out for the schedule
C18_ScheduleFailure ==
    /\ \A sb \in ScoreboardOutcomes : sb.kind # "ok" => teams_playing_on(sb) = {}
    /\ (streaming.run /\ teams_playing = {}) =>
           \A i \in DOMAIN streaming.entries :
               streaming.entries[i].score > 0 => streaming.entries[i].keep

\* a failed free-agent fetch gives an empty pool and an empty result
C18_FreeAgentFailure ==
    (streaming.run /\ league # NoLeague /\ league.fa_error) =>
        (streaming.entries = << >> /\ streaming.results = << >>)

\* a failed box-score fetch gives the all-zero need vector
C18_BoxScoreFailure ==
    (matchup.run /\ league # NoLeague /\ league.box_error) =>
        \A cat \in DOMAIN matchup.vector.num : matchup.vector.num[cat] = 0

\* a failed scoreboard fetch gives no matchups and no opponent
C18_ScoreboardFailure ==
    (connected.run /\ ~connected.raised /\ espn.scoreboard_error) =>
        /\ connected.matchups = << >>
        /\ \A t \in DOMAIN connected.profiles :
               get_opponent_profile_for_team(espn, connected.profiles,
                                             connected.profiles[t]) = None

\* a failed player-stat load gives an empty stat universe
C18_StatLoadFailure ==
    (nba_players.run /\ ~stat_provider.up) =>
        (~nba_players.raised /\ nba_players.value = EmptyDict)

\* C18: a failure of any external provider call degrades to an empty or
\* default value and never propagates as an exception: the schedule lookup,
\* the free-agent fetch, the live box-score fetch, the scoreboard fetch and
\* the player-stat load.
C18_ProviderFailuresDegrade ==
    /\ C18_ScheduleFailure
    /\ C18_FreeAgentFailure
    /\ C18_BoxScoreFailure
    /\ C18_ScoreboardFailure
    /\ C18_StatLoadFailure

----------------------------------------------------------------------------
(* C19: the need vector of the streaming page *)

\* the live need vector matchup_need_vector gives the streaming page
LiveNeed == matchup_need_vector(league, my_team).vector

\* the live need vector is all zero over the trade categories
LiveAllZero(live) == \A c \in TradeCatSet : live.num[c] = 0

\* the user weight of a category in tenths, the step of the sidebar sliders
WeightTenths(cat) == Get(stream_weights, cat, ONE) \div 100

\* the season-long need of a category before weighting
SeasonNeed(cat) ==
    IF opponent # None
    THEN Max(0, Get(opponent.raw_zscores, cat, 0) - Get(my_team.raw_zscores, cat, 0))
    ELSE Max(0, -Get(my_team.raw_zscores, cat, 0))

\* the weighted needs of the path in use: the live needs unless they are all
\* zero over the trade categories, each times the user's weight
WeightedNeeds(live) ==
    [cat \in TradeCatSet |->
        (IF LiveAllZero(live) THEN SeasonNeed(cat) ELSE live.num[cat])
            * WeightTenths(cat)]

RECURSIVE Gcd(_, _)
Gcd(a, b) == IF b = 0 THEN a ELSE Gcd(b, a % b)

RECURSIVE GcdOf(_)
GcdOf(s) == IF s = << >> THEN 0 ELSE Gcd(Head(s), GcdOf(Tail(s)))

\* the common factor of needs.den and every needs.num[cat]
NeedUnit ==
    GcdOf(<<streaming.needs.den>>
          \o [c \in DOMAIN TRADE_CATEGORIES |-> streaming.needs.num[TRADE_CATEGORIES[c]]])

\* needs.num[cat] / needs.den, in lowest terms with the common factor g,
\* is weighted[cat] / total
NeedIsShare(cat, g, weighted, total) ==
    (streaming.needs.num[cat] \div g) * total
        = weighted[cat] * (streaming.needs.den \div g)

\* the value needs.num[cat] / needs.den the scoring used is positive
NeedPositive(cat) == streaming.needs.num[cat] > 0

\* C19: the need vector recommend_streaming_adds scores with is over the
\* trade categories only (no TOV); it is the live need vector unless that is
\* all zero over the trade categories, and then the season-long need
\* (max(0, opponent_z - my_z) with an opponent, max(0, -my_z) without); in
\* either path each need is multiplied by the user's category weight, and
\* the vector sums to 1 whenever a weighted need is positive.
C19_StreamingNeedsWeightedAndNormalised ==
    streaming.run =>
        /\ DOMAIN streaming.needs.num = TradeCatSet
        /\ streaming.needs.den > 0
        /\ \A cat \in TradeCatSet : streaming.needs.num[cat] >= 0
        /\ \E weighted \in {WeightedNeeds(LiveNeed)}, g \in {NeedUnit} :
              IF TradeTotal(weighted) > 0
              THEN /\ TradeTotal(streaming.needs.num) = streaming.needs.den
                   /\ \A cat \in TradeCatSet :
                         NeedIsShare(cat, g, weighted, TradeTotal(weighted))
              ELSE \A cat \in TradeCatSet : streaming.needs.num[cat] = 0

\* the paths with a weight that changes the outcome: the live vector needs
\* PTS and the user's PTS weight of 0 removes it, or the live vector needs
\* TOV only and the season-long needs against an opponent are taken with AST
\* at half weight
C19_Witness ==
    /\ streaming.run
    /\ stream_weights["AST"] = 500
    /\ opponent # None
    /\ \E cat \in TradeCatSet : NeedPositive(cat)
    /\ \E live \in {LiveNeed} :
          \/ /\ live.num["PTS"] > 0
             /\ ~NeedPositive("PTS")
          \/ /\ LiveAllZero(live)
             /\ live.num["TOV"] > 0
             /\ NeedPositive("AST")

----------------------------------------------------------------------------
(* C20: players the stat source does not know *)

\* the stat universe has a line under the name
KnownName(name) == name \in DOMAIN nba_players.value

\* the names of the league's free agents, in the provider's order
FreeAgentNames == [i \in DOMAIN espn.free_agents |-> espn.free_agents[i].name]

PooledNames == [i \in DOMAIN local_pool.players |-> local_pool.players[i].display_name]

\* in aggregate_team_profiles every roster player of the provider is on the
\* profile's roster, in order; one without a stat line has 0 in every
\* category, and the category totals are those of the players with a line
C20_UnknownRosterPlayerIsZero ==
    (connected.run /\ ~connected.raised) =>
        \A t \in DOMAIN espn.teams :
            LET roster == espn.teams[t].roster
                tp == connected.profiles[t]
            IN  /\ Len(tp.players) = Len(roster)
                /\ \A i \in DOMAIN roster :
                      /\ tp.players[i].display_name = roster[i].name
                      /\ ~KnownName(roster[i].name) =>
                             \A cat \in CatSet : tp.players[i].stats[cat] = 0
                /\ \A cat \in CatSet :
                      tp.category_totals[cat] =
                          SumSeq([i \in DOMAIN roster |->
                                     IF KnownName(roster[i].name)
                                     THEN Get(nba_players.value[roster[i].name], cat, 0)
                                     ELSE 0])

\* C20 as stated: a player whose name is absent from the stat source is
\* treated as having zero for every category: in aggregate_team_profiles the
\* player stays on the roster with all-zero stats and adds nothing to
\* category_totals, and in the streaming pool a free agent without a stat
\* line is likewise kept as a zero-stat member of the pool over which local
\* z-scores are computed.
C20_UnknownPlayersKeptAsZero ==
    /\ C20_UnknownRosterPlayerIsZero
    /\ (local_pool.run /\ local_pool.of = "waivers") =>
           /\ PooledNames = FreeAgentNames
           /\ \A i \in DOMAIN local_pool.players :
                 ~KnownName(local_pool.players[i].display_name) =>
                     \A cat \in CatSet : local_pool.players[i].stats[cat] = 0

\* C20 amended: a roster player without a stat line stays on the roster with
\* all-zero stats and adds nothing to category_totals; a free agent without
\* a stat line is left out of the streaming pool, so the local z-scores are
\* computed over the free agents with a stat line only, in their order.
C20_UnknownRosterKeptUnknownFreeAgentSkipped ==
    /\ C20_UnknownRosterPlayerIsZero
    /\ (local_pool.run /\ local_pool.of = "waivers") =>
           PooledNames = SelectSeq(FreeAgentNames, KnownName)

\* a team holds a player with a line and one without, its totals are not
\* zero, and the waiver pool was built from free agents of both kinds
C20_Witness ==
    /\ connected.run
    /\ ~connected.raised
    /\ \E t \in DOMAIN espn.teams :
          /\ \E i \in DOMAIN espn.teams[t].roster :
                ~KnownName(espn.teams[t].roster[i].name)
          /\ connected.profiles[t].category_totals["PTS"] > 0
    /\ local_pool.run
    /\ local_pool.of = "waivers"
    /\ local_pool.players # << >>
    /\ Len(local_pool.players) < Len(espn.free_agents)


----------------------------------------------------------------------------
(* What a trade analysis writes (C21) and what it reads (C22) *)

\* a key of a stat line that starts with the reserved prefix
IsLocalZKey(k) == \E c \in CatSet : k = PLAYER_Z_PREFIX \o c

\* a profile without the local z-scores on its players' stat lines
WithoutLocalZ(tp) ==
    [tp EXCEPT !.players =
        [i \in DOMAIN tp.players |->
            [tp.players[i] EXCEPT !.stats =
                [k \in {x \in DOMAIN tp.players[i].stats : ~IsLocalZKey(x)} |->
                    tp.players[i].stats[k]]]]]

\* C21: a call to either trade engine changes nothing in the profiles but
\* the entries of the players' stats whose key starts with "__Z__": the
\* roster and its order, every raw category stat, the stored injury
\* severity, category_totals, raw_zscores, weighted_zscores, total_score,
\* punt_categories and strength_categories stay, and so does category_weights
C21_TradeCallWritesOnlyLocalZ ==
    [][/\ category_weights' = category_weights
       /\ DOMAIN profiles' = DOMAIN profiles
       /\ \A t \in DOMAIN profiles :
             WithoutLocalZ(profiles'[t]) = WithoutLocalZ(profiles[t])]_vars

\* an analysis ran on a team that holds an injured player with a raw stat,
\* and wrote a local z-score on that player's stat line
C21_Witness ==
    /\ last_call.engine # "none"
    /\ \E i \in DOMAIN profiles[last_call.a].players :
          LET stats == profiles[last_call.a].players[i].stats
          IN  /\ stats[INJURY_KEY] > 0
              /\ stats["PTS"] > 0
              /\ PLAYER_Z_PREFIX \o "PTS" \in DOMAIN stats
              /\ stats[PLAYER_Z_PREFIX \o "PTS"] # 0

\* the profiles of the session as connect_league built them
SessionFresh ==
    CHOOSE f \in {SessionProfiles(lg, category_weights) : lg \in SessionLeagues} :
        f = [t \in DOMAIN profiles |-> WithoutLocalZ(profiles[t])]

\* what the engine of the last call returns on the profiles f
LastCallOn(f) ==
    IF last_call.engine = "basic"
    THEN generate_trade_suggestions(f[last_call.a], f[last_call.b],
                                    category_weights, MAX_TRADES)
    ELSE generate_enhanced_trade_suggestions(f[last_call.a], f[last_call.b],
             category_weights, MAX_TRADES, last_call.consider_opponent)

\* C22: whatever analyses ran before it, a call returns what the same call
\* returns on freshly built profiles: the local z-scores earlier calls left
\* on the stat lines have no influence, and a repeated call returns the
\* same suggestions
C22_CallsIgnoreEarlierLocalZ ==
    last_call.engine # "none" =>
        \E r \in {LastCallOn(SessionFresh)} :
            /\ [k \in DOMAIN suggestions |-> Suggestion(suggestions[k])] = r.suggestions
            /\ considered = r.considered
            /\ prefs = <<r.prefs_a, r.prefs_b>>

\* a call returned a suggestion for two teams while the third team still
\* carried the local z-scores of an earlier call, which it shared with one
\* of the two
C22_Witness ==
    /\ last_call.engine # "none"
    /\ suggestions # << >>
    /\ \E t \in DOMAIN profiles :
          /\ t \notin {last_call.a, last_call.b}
          /\ \E i \in DOMAIN profiles[t].players :
                PLAYER_Z_PREFIX \o "PTS" \in DOMAIN profiles[t].players[i].stats
----------------------------------------------------------------------------
(* C23: the playing_today flag of a streaming recommendation *)

\* C23: for every streaming recommendation, playing_today is true only when
\* the schedule set for the date is non-empty and contains the player's NBA
\* team; when the schedule is unknown (the empty set) the player is not
\* reported as confirmed playing
C23_PlayingTodayOnlyWhenScheduled ==
    streaming.run =>
        \A k \in DOMAIN streaming.results :
            streaming.results[k].playing_today =>
                /\ teams_playing # {}
                /\ Upper(streaming.results[k].player.nba_team_abbrev) \in teams_playing

\* the schedule is unknown and a recommended player is flagged as playing
C23_FlaggedWithoutSchedule ==
    /\ streaming.run
    /\ teams_playing = {}
    /\ \E k \in DOMAIN streaming.results : streaming.results[k].playing_today

----------------------------------------------------------------------------
(* C24: the injury and position sentences of the rationale *)

\* outgoing_avg - incoming_avg >= 0.2, the boundary included
AtLeastFifthBelow(sev_out, sev_in) ==
    sev_out.num * sev_in.den * 5
        >= sev_in.num * sev_out.den * 5 + ONE * sev_out.den * sev_in.den

\* the two packages of the k-th suggestion of the last call
SuggestedPackA(k) == PackOf(profiles[last_call.a], suggestions[k].from_a)
SuggestedPackB(k) == PackOf(profiles[last_call.b], suggestions[k].from_b)

\* C24: the rationale of a suggestion contains the injury-risk sentence for
\* a side exactly when that side's average incoming injury severity is at
\* least 0.2 below its average outgoing severity (the boundary 0.2
\* included), and the position-balance sentence exactly when either side's
\* balance delta is above 0.2
C24_RationaleSentences ==
    last_call.engine # "none" =>
        \A k \in DOMAIN suggestions :
            /\ suggestions[k].ai_reason.injury_a
                  <=> AtLeastFifthBelow(avg_sev(SuggestedPackA(k)),
                                        avg_sev(SuggestedPackB(k)))
            /\ suggestions[k].ai_reason.injury_b
                  <=> AtLeastFifthBelow(avg_sev(SuggestedPackB(k)),
                                        avg_sev(SuggestedPackA(k)))
            /\ suggestions[k].ai_reason.position
                  <=> \/ position_balance_delta(profiles[last_call.a],
                             SuggestedPackA(k), SuggestedPackB(k)) > 200
                      \/ position_balance_delta(profiles[last_call.b],
                             SuggestedPackB(k), SuggestedPackA(k)) > 200

\* a suggestion whose outgoing average is exactly 0.2 above the incoming
\* one for the first team, and whose rationale has no injury sentence for it
C24_BoundaryWithoutSentence ==
    /\ last_call.engine # "none"
    /\ \E k \in DOMAIN suggestions :
          LET out == avg_sev(SuggestedPackA(k))
              inc == avg_sev(SuggestedPackB(k))
          IN  /\ out.num * inc.den * 5 = inc.num * out.den * 5 + ONE * out.den * inc.den
              /\ ~suggestions[k].ai_reason.injury_a

----------------------------------------------------------------------------
(* C25: the swing-zone tier of the enhanced preference builder *)

\* the league z-score of a category of the team
EnhZ(cat) == Get(enh_team.raw_zscores, cat, 0)

\* C25: a category not taking the strength branch receives the swing-zone
\* base 0.8 + 0.4 * (1 - |z|) exactly when its z-score lies in the open
\* interval (-0.3, 0.2); within that tier the base strictly increases as |z|
\* decreases; and the base of a swing-zone category is greater than the base
\* of any category in the weak tier and of any category in the positive tier
C25_SwingZoneTier ==
    enh_prefs.run =>
        \A cat \in TradeCatSet :
            enh_prefs.tier[cat] # "strength" =>
                /\ enh_prefs.tier[cat] = "swing" <=> (-300 < EnhZ(cat) /\ EnhZ(cat) < 200)
                /\ enh_prefs.tier[cat] = "swing" =>
                      /\ enh_prefs.base[cat] = 800 + SDiv(4 * (ONE - Abs(EnhZ(cat))), 10)
                      /\ \A other \in TradeCatSet :
                            /\ (/\ enh_prefs.tier[other] = "swing"
                                /\ Abs(EnhZ(other)) > Abs(EnhZ(cat)))
                                  => enh_prefs.base[other] < enh_prefs.base[cat]
                            /\ enh_prefs.tier[other] \in {"weak", "positive"}
                                  => enh_prefs.base[other] < enh_prefs.base[cat]

\* a category at z = 0.2 exactly received the swing-zone base
C25_SwingAtUpperLimit ==
    /\ enh_prefs.run
    /\ \E cat \in TradeCatSet :
          /\ EnhZ(cat) = 200
          /\ enh_prefs.tier[cat] = "swing"
          /\ enh_prefs.base[cat] = 1120

\* a positive-tier category has a higher base than a swing-zone category
C25_PositiveAboveSwing ==
    /\ enh_prefs.run
    /\ \E cat \in TradeCatSet, other \in TradeCatSet :
          /\ enh_prefs.tier[cat] = "swing"
          /\ enh_prefs.tier[other] = "positive"
          /\ enh_prefs.base[other] > enh_prefs.base[cat]

----------------------------------------------------------------------------
(* C29: the correlation discount of _score_package_enhanced *)

\* for each category that is the later member of a correlated pair: the
\* earlier member and the pair's correlation
EarlierPartner ==
    [cat \in {"AST", "STL", "BLK", "FG%", "3PM"} |->
        CASE cat = "AST" -> [of |-> "PTS", corr |-> 500]
          [] cat = "STL" -> [of |-> "AST", corr |-> 400]
          [] cat = "BLK" -> [of |-> "REB", corr |-> 500]
          [] cat = "FG%" -> [of |-> "REB", corr |-> 600]
          [] cat = "3PM" -> [of |-> "PTS", corr |-> 600]]

\* swing value times preference weight, before any discount
Undiscounted(cat) ==
    Weighted(category_swing_value(EnhZ(cat), enh_delta[cat],
                                  Get(CATEGORY_VOLATILITY, cat, 150)),
             enh_prefs.prefs, cat)

\* the category's gain was multiplied by 1 - corr * 0.3, once
DiscountedOnce(cat) ==
    /\ cat \in DOMAIN EarlierPartner
    /\ enh_gain.per_cat_gain[cat]
          = FMul(Undiscounted(cat), ONE - SDiv(EarlierPartner[cat].corr * 3, 10))

Sgn(x) == IF x > 0 THEN 1 ELSE IF x < 0 THEN -1 ELSE 0

\* the discount goes to the later member of a pair, once, exactly when the
\* earlier member's final gain is positive, whatever the later member's own
\* delta; PTS, REB and FT% keep their undiscounted gain
DiscountRule ==
    \A cat \in TradeCatSet :
        IF cat \in DOMAIN EarlierPartner
              /\ enh_gain.per_cat_gain[EarlierPartner[cat].of] > 0
        THEN DiscountedOnce(cat)
        ELSE enh_gain.per_cat_gain[cat] = Undiscounted(cat)

\* C29 as stated: the discount rule, and the final gain of every category
\* has the same sign as its raw delta
C29_DiscountAndSameSign ==
    enh_gain.run =>
        /\ DiscountRule
        /\ \A cat \in TradeCatSet :
              Sgn(enh_gain.per_cat_gain[cat]) = Sgn(enh_delta[cat])

\* C29: the correlation discount (1 - corr * 0.3) of a pair is applied to
\* the member later in category order only, once, and exactly when the
\* earlier member's already-computed gain is positive, whatever the sign of
\* the later member's own delta; PTS and REB are never discounted; the final
\* gain of a category has the sign of its raw delta when its preference
\* weight is positive and is zero when its preference weight is zero
C29_DiscountAndSignUnlessZeroWeight ==
    enh_gain.run =>
        /\ DiscountRule
        /\ \A cat \in TradeCatSet :
              IF Get(enh_prefs.prefs.num, cat, 0) > 0
              THEN Sgn(enh_gain.per_cat_gain[cat]) = Sgn(enh_delta[cat])
              ELSE enh_gain.per_cat_gain[cat] = 0

\* AST was discounted for a positive PTS gain although its own delta is
\* negative, STL was then left undiscounted because the AST gain is not
\* positive, and a category of preference weight zero ended with gain zero
C29_Witness ==
    /\ enh_gain.run
    /\ enh_gain.per_cat_gain["PTS"] > 0
    /\ enh_delta["AST"] < 0
    /\ DiscountedOnce("AST")
    /\ enh_gain.per_cat_gain["AST"] # Undiscounted("AST")
    /\ enh_gain.per_cat_gain["STL"] = Undiscounted("STL")
    /\ enh_delta["STL"] # 0
    /\ Get(enh_prefs.prefs.num, "STL", 0) = 0
    /\ enh_gain.per_cat_gain["3PM"] # Undiscounted("3PM")

----------------------------------------------------------------------------
(* C26: the key set of the two distances of position_balance_delta *)

\* the sum over the positions of keys of |count * num_positions -
\* roster_size|: the distance to the ideal, times num_positions
RECURSIVE DistanceOver(_, _, _, _)
DistanceOver(counts, keys, roster_size, num_positions) ==
    IF keys = {} THEN 0
    ELSE LET k == CHOOSE x \in keys : TRUE
         IN  Abs(Get(counts, k, 0) * num_positions - roster_size)
               + DistanceOver(counts, keys \ {k}, roster_size, num_positions)

\* the position counts of the team before and after the recorded swap
BalanceBefore == position_counts(pos_team.players)
BalanceAfter == PositionAfter(BalanceBefore, balance.players_out, balance.players_in)

\* C26: position_balance_delta returns distance(before) - distance(after)
\* with ideal = roster_size / number of distinct primary positions on the
\* roster and both distances summed over the same key set, the union of the
\* positions present before or after the swap, so that a position appearing
\* only through an incoming player contributes |0 - ideal| to
\* distance(before)
C26_BothDistancesOverUnion ==
    (balance.run /\ pos_team.players # << >>) =>
        LET keys == DOMAIN BalanceBefore \cup DOMAIN BalanceAfter
            roster_size == Len(pos_team.players)
            num_positions == Cardinality(DOMAIN BalanceBefore)
        IN  balance.delta
              = SDiv((DistanceOver(BalanceBefore, keys, roster_size, num_positions)
                        - DistanceOver(BalanceAfter, keys, roster_size, num_positions))
                       * ONE,
                     num_positions)

\* a swap brought in a position the roster did not have, and the delta is
\* the one with distance(before) summed over the roster's own positions
C26_NewPositionNotInBefore ==
    /\ balance.run
    /\ pos_team.players # << >>
    /\ DOMAIN BalanceAfter # DOMAIN BalanceBefore
    /\ LET roster_size == Len(pos_team.players)
           num_positions == Cardinality(DOMAIN BalanceBefore)
       IN  balance.delta
             = SDiv((DistanceOver(BalanceBefore, DOMAIN BalanceBefore, roster_size,
                                  num_positions)
                       - DistanceOver(BalanceAfter, DOMAIN BalanceAfter, roster_size,
                                      num_positions)) * ONE,
                    num_positions)

----------------------------------------------------------------------------
(* C27: the basic engine between two teams of identical preferences *)

\* the position-balance delta of each side for the packages of a candidate
\* or suggestion c of the last call
PosDeltaA(c) ==
    position_balance_delta(profiles[last_call.a],
                           PackOf(profiles[last_call.a], c.from_a),
                           PackOf(profiles[last_call.b], c.from_b))

PosDeltaB(c) ==
    position_balance_delta(profiles[last_call.b],
                           PackOf(profiles[last_call.b], c.from_b),
                           PackOf(profiles[last_call.a], c.from_a))

\* C27: in the basic engine, when the two teams have identical preference
\* vectors, the category part of team A's gain (its gain without the
\* position term 0.12 * delta) is the exact negative of team B's for every
\* candidate pair of packages; a pair whose position-balance delta is <= 0
\* for both teams is never suggested, and every returned suggestion has a
\* strictly positive position-balance delta for at least one side
C27_IdenticalPrefsNeedPositionGain ==
    (last_call.engine = "basic" /\ prefs[1] = prefs[2]) =>
        /\ \A i \in DOMAIN considered :
              /\ considered[i].gain_a - FMul(120, PosDeltaA(considered[i]))
                    = -(considered[i].gain_b - FMul(120, PosDeltaB(considered[i])))
              /\ (PosDeltaA(considered[i]) <= 0 /\ PosDeltaB(considered[i]) <= 0)
                    => ~considered[i].keep
        /\ \A k \in DOMAIN suggestions :
              PosDeltaA(suggestions[k]) > 0 \/ PosDeltaB(suggestions[k]) > 0

\* the basic engine ran between two teams of identical preferences, found
\* candidates whose category parts are not zero, and returned a suggestion
C27_Witness ==
    /\ last_call.engine = "basic"
    /\ prefs[1] = prefs[2]
    /\ suggestions # << >>
    /\ \E i \in DOMAIN considered :
          /\ considered[i].gain_a - FMul(120, PosDeltaA(considered[i])) > 0
          /\ PosDeltaA(considered[i]) <= 0
          /\ PosDeltaB(considered[i]) <= 0

----------------------------------------------------------------------------
(* C28: packages whose market values have opposite signs *)

\* one package has positive and the other negative total market value
OppositeSigns(a, b) == (a > 0 /\ b < 0) \/ (a < 0 /\ b > 0)

C28_TinyOppositeValuesAreFair ==
    /\ fairness.run
    /\ OppositeSigns(val_a, val_b)
    /\ (Abs(val_a) + Abs(val_b)) * EpsDen <= 2 * unit
    /\ fairness.score = [num |-> 1, den |-> 1]

\* in the trade component, whose market values are multiples of 0.001, no
\* kept pair of packages has market values of opposite signs
C28_NoOppositeSuggestionAtThousandths ==
    \A i \in DOMAIN considered :
        considered[i].keep => ~OppositeSigns(considered[i].value_a, considered[i].value_b)

----------------------------------------------------------------------------
(* C30: what Recalculate Scores writes, and what it depends on *)

\* a profile with the four fields apply_weights_and_scores writes blanked
WithoutScores(tp) ==
    [tp EXCEPT !.weighted_zscores = EmptyDict,
               !.total_score = 0,
               !.punt_categories = << >>,
               !.strength_categories = << >>]

\* the four fields apply_weights_and_scores writes
ScoresOf(tp) ==
    [weighted_zscores |-> tp.weighted_zscores,
     total_score |-> tp.total_score,
     punt_categories |-> tp.punt_categories,
     strength_categories |-> tp.strength_categories]

\* C30: apply_weights_and_scores writes only weighted_zscores, total_score,
\* punt_categories and strength_categories of each profile and leaves the
\* roster, category_totals and raw_zscores unchanged; what it writes depends
\* only on raw_zscores and the weights passed, so after any sequence of
\* weight changes and recalculations each profile equals what one
\* application of the latest applied weights to the freshly aggregated
\* profile gives, and re-applying the same weights changes nothing
C30_RecalculationDependsOnLatestWeights ==
    (scored.run /\ "applied" \in DOMAIN scored) =>
        /\ DOMAIN scored.profiles = DOMAIN raw_profiles
        /\ \A t \in DOMAIN raw_profiles :
              /\ WithoutScores(scored.profiles[t]) = WithoutScores(raw_profiles[t])
              /\ scored.profiles[t]
                    = ApplyWeightsToProfile(raw_profiles[t], scored.applied)
              /\ ScoresOf(scored.profiles[t])
                    = ScoresOf(ApplyWeightsToProfile(
                          RawProfile(t, raw_profiles[t].raw_zscores), scored.applied))
        /\ apply_weights_and_scores(scored.profiles, scored.applied) = scored.profiles

\* the weights were applied after a slider had been moved to 0 and another
\* away from 1.0, to profiles that had been scored with other weights; the
\* profiles have rosters, one has a strength and one has two punts
C30_Witness ==
    /\ scored.run
    /\ "applied" \in DOMAIN scored
    /\ scored.applied = slider_weights
    /\ slider_weights["PTS"] = 0
    /\ slider_weights["TOV"] = 500
    /\ \E t \in DOMAIN scored.profiles :
          /\ scored.profiles[t].players # << >>
          /\ scored.profiles[t].category_totals["AST"] > 0
          /\ "PTS" \notin DOMAIN scored.profiles[t].weighted_zscores
          /\ scored.profiles[t].strength_categories # << >>
    /\ \E t \in DOMAIN scored.profiles : Len(scored.profiles[t].punt_categories) > 1

=============================================================================
